---- MODULE Spec2Model ----
(***************************************************************************)
(* openupgradelib: the record merge engine of openupgrade_merge_records.py *)
(* (merge_records and the steps it calls), as a state machine over a small *)
(* relational store.                                                       *)
(*                                                                         *)
(* Python values.  None / False / an empty recordset is the empty tuple    *)
(* <<>>; a scalar v is the one-element tuple <<v>>.  A dictionary is a     *)
(* function whose domain is its key set.  The absent operation             *)
(* (field_spec.get(name, False)) is the empty string.                      *)
(***************************************************************************)
EXTENDS Integers, Sequences, FiniteSets, TLC

VARIABLES
    method,            \* "orm" | "sql"                       (merge_records argument)
    delete,            \* BOOLEAN                             (merge_records argument)
    has_field_spec,    \* FALSE when the caller passed field_spec=None
    field_spec,        \* the caller's dictionary object, as it is now
    field_spec0,       \* the same dictionary as it was when the call started
    args_record_ids,   \* record_ids as packed in args0 / args (never filtered)
    record_ids,        \* the local record_ids (filtered by the existence check)
    target_record_id,
    exclude_columns,   \* set of pairs <<table, column>>        (merge_records argument)
    pc,                \* position inside merge_records
    exit,              \* how merge_records ended: "" while it runs
    err,               \* the exception that left merge_records, "" if none
    db,                \* the store:
                       \*   recs     the merged model's table, id -> row
                       \*   ref      a table with an id, a foreign key column col to
                       \*            the model and another column k: rows [id, col, k]
                       \*   ref_unique    whether ref has UNIQUE(col, k)
                       \*   ref_ondelete  the ON DELETE rule of ref.col
                       \*   tag_rel  junction of the model's own many2many field
                       \*            tag_ids: pairs <<record id, tag id>>
                       \*   m_rel    junction of a many2many field of another model
                       \*            to this model: pairs <<other id, record id>>
                       \*   imd      res_id of the ir_model_data rows of the model
                       \*   att      ir_attachment rows of the model: id -> res_id
                       \*   fol      mail_followers rows of the model:
                       \*            id -> [res_id, partner]
                       \*   fol_unique   whether mail_followers has
                       \*            unique(res_model, res_id, partner_id)
                       \*   trans    ir_translation rows of the model's fields:
                       \*            id -> [res_id, name, lang]
                       \*   version  version_info[0], the Odoo version
    db0,               \* the store when the call started
    log,               \* the store-changing statements executed so far, in order
    last,              \* what the value reconciliation computed (vals, new_vals)
    call,              \* inputs of a direct call of one function of the module
    ret                \* its result

vars == <<method, delete, has_field_spec, field_spec, field_spec0, args_record_ids,
          record_ids, target_record_id, exclude_columns, pc, exit, err, db, db0, log, last, call, ret>>

(***************************************************************************)
(* Bounds of the model.                                                    *)
(***************************************************************************)
MaxLen == 4      \* longest value list [survivor, duplicates...] of a direct call
MaxQty == 1      \* largest stored value of the numeric field qty
MaxTables == 2   \* number of referencing tables in a direct call of the relinker

None == <<>>
NoOp == ""
EmptyDict == <<>>

(***************************************************************************)
(* Sequence and dictionary helpers.                                        *)
(***************************************************************************)
Range(s) == {s[i] : i \in 1..Len(s)}

Reverse(s) == [i \in 1..Len(s) |-> s[Len(s) + 1 - i]]

RECURSIVE SumSeq(_)
SumSeq(s) == IF s = <<>> THEN 0 ELSE Head(s) + SumSeq(Tail(s))

MaxSeq(s) == CHOOSE x \in Range(s) : \A y \in Range(s) : y <= x

MinSeq(s) == CHOOSE x \in Range(s) : \A y \in Range(s) : x <= y

\* the elements of a set of integers in increasing order
RECURSIVE SortedSeq(_)
SortedSeq(S) ==
    IF S = {} THEN <<>>
    ELSE LET m == CHOOSE x \in S : \A y \in S : x <= y
         IN <<m>> \o SortedSeq(S \ {m})

\* list(set(...)): the elements of S in the order the hash table holds them,
\* which the program does not choose: every order of the elements
ListOfSet(S) == {s \in [1..Cardinality(S) -> S] : Range(s) = S}

\* d.update(e)
DictUpdate(d, e) ==
    [k \in (DOMAIN d) \cup (DOMAIN e) |-> IF k \in DOMAIN e THEN e[k] ELSE d[k]]

\* del d[key]
DictDel(d, key) == [k \in (DOMAIN d) \ {key} |-> d[k]]

\* d.get(key, default)
DictGet(d, key, default) == IF key \in DOMAIN d THEN d[key] ELSE default

One(key, value) == [k \in {key} |-> value]

\* the injective sequences over S of length 1..n
SeqsNoRepeat(S, n) ==
    {s \in UNION {[1..k -> S] : k \in 1..n} :
        \A i, j \in 1..Len(s) : i # j => s[i] # s[j]}

(***************************************************************************)
(* Python truth values of stored values.                                   *)
(***************************************************************************)
\* bool(x) for a number or None
TruthyNum(x) == x # None /\ x[1] # 0

\* bool(x) for a string, None or False
TruthyStr(x) == x # None /\ x[1] # ""

\* bool(x) for a record id, or None
TruthyId(x) == x # None

\* 0 if not x else x
ZeroIfNot(x) == IF TruthyNum(x) THEN x[1] ELSE 0

\* " | ".join(parts), parts being one-element tuples holding strings
RECURSIVE JoinPipe(_)
JoinPipe(parts) ==
    IF parts = <<>> THEN ""
    ELSE IF Len(parts) = 1 THEN parts[1][1]
    ELSE parts[1][1] \o " | " \o JoinPipe(Tail(parts))

\* the union in which the value already present is kept
RECURSIVE DictUnion_keeping(_)
DictUnion_keeping(field_vals) ==
    IF field_vals = <<>> THEN EmptyDict
    ELSE LET n == Len(field_vals)
             x == field_vals[n]
         IN DictUpdate(IF x = None THEN EmptyDict ELSE x[1],
                       DictUnion_keeping(SubSeq(field_vals, 1, n - 1)))

\* field_val = {}; for x in field_vals: field_val |= x or {}
RECURSIVE DictUnion(_)
DictUnion(field_vals) ==
    IF field_vals = <<>> THEN EmptyDict
    ELSE LET n == Len(field_vals)
             x == field_vals[n]
         IN DictUpdate(DictUnion(SubSeq(field_vals, 1, n - 1)),
                       IF x = None THEN EmptyDict ELSE x[1])

\* numeric_operation with missing values left out instead of counted as 0
numeric_operation_missing_dropped(field_vals, field_type, operation) ==
    LET filled == SelectSeq(field_vals, LAMBDA x : x # None)
        nums == [i \in 1..Len(filled) |-> filled[i][1]]
    IN CASE nums = <<>> -> None
         [] operation = "sum" \/ (operation = NoOp /\ field_type # "integer") -> <<<<SumSeq(nums)>>>>
         [] operation = "max" -> <<<<MaxSeq(nums)>>>>
         [] operation = "min" -> <<<<MinSeq(nums)>>>>
         [] OTHER -> None

\* lines 436-452: the integer, float and monetary columns.  The result is None
\* when no candidate is computed, else a one-element tuple holding the candidate
numeric_operation(field_vals, field_type, operation) ==
    LET fv2 == IF operation # NoOp \/ field_type # "integer"
               THEN [i \in 1..Len(field_vals) |-> <<ZeroIfNot(field_vals[i])>>]
               ELSE field_vals
        op == IF operation = NoOp
              THEN (IF field_type = "integer" THEN "other" ELSE "sum")
              ELSE operation
        nums == [i \in 1..Len(fv2) |-> fv2[i][1]]
        filled == SelectSeq(fv2, TruthyNum)
    IN CASE op = "sum" -> <<<<SumSeq(nums)>>>>
         [] op = "avg" -> <<<<SumSeq(nums), Len(nums)>>>>   \* the quotient, as a pair
         [] op = "max" -> <<<<MaxSeq(nums)>>>>
         [] op = "min" -> <<<<MinSeq(nums)>>>>
         [] op = "first_not_null" -> IF filled # <<>> THEN <<filled[1]>> ELSE None
         [] OTHER -> None

\* many2one_reference_operation that leaves the field_spec dictionary alone
many2one_reference_operation_no_del(env, field_spec_in, field_vals, column, operation, first_value) ==
    [vals |-> EmptyDict, field_spec |-> field_spec_in]

\* lines 504-512: a many2one_reference field in "orm" mode; returns vals and the
\* field_spec dictionary as this branch leaves it
many2one_reference_operation(env, field_spec_in, field_vals, column, operation, first_value) ==
    IF (IF operation = NoOp THEN "merge" ELSE operation) = "merge"
    THEN LET fs == IF env.model_field \in DOMAIN field_spec_in
                   THEN DictDel(field_spec_in, env.model_field)
                   ELSE field_spec_in
             n == IF Len(field_vals) <= Len(env.list_model_field)
                  THEN Len(field_vals) ELSE Len(env.list_model_field)
             zip_idx == SelectSeq([i \in 1..n |-> i],
                            LAMBDA i : TruthyNum(field_vals[i])
                                       /\ TruthyStr(env.list_model_field[i]))
         IN IF TruthyNum(first_value) /\ zip_idx # <<>>
            THEN [vals |-> DictUpdate(One(column, field_vals[zip_idx[1]]),
                               One(env.model_field, env.list_model_field[zip_idx[1]])),
                  field_spec |-> fs]
            ELSE [vals |-> EmptyDict, field_spec |-> fs]
    ELSE [vals |-> EmptyDict, field_spec |-> field_spec_in]

(***************************************************************************)
(* apply_operations_by_field_type: the candidate value(s) of one field.    *)
(* env holds what the function reads through the ORM in "orm" mode:        *)
(*   origin_value  getattr(model.browse(record_ids[0]), column)            *)
(*   target_value  getattr(model.browse(target_record_id), column)         *)
(*   model_field   field.model_field ("" if the field has none)            *)
(*   model_field_known   field.model_field in model._fields                *)
(*   list_model_field    all_records.mapped(field.model_field)             *)
(* The result holds the returned vals, the returned o2m_changes and the    *)
(* field_spec dictionary as the call leaves it (it is changed in place).   *)
(***************************************************************************)
apply_operations_by_field_type(env, field_spec_in, field_vals_in, field_type, column, operation_in, meth) ==
    LET from_origin == operation_in = "first_from_origin"
        op1 == IF from_origin THEN "first_not_null" ELSE operation_in
        fv1 == IF meth # "orm" /\ from_origin
               THEN Reverse(field_vals_in) ELSE field_vals_in
        first_value ==
            IF meth = "orm"
            THEN (IF from_origin THEN env.origin_value ELSE env.target_value)
            ELSE fv1[1]
        Result(v, fs, n) == [vals |-> v, field_spec |-> fs, o2m_changes |-> n]
        Nothing == Result(EmptyDict, field_spec_in, 0)
        Put(v) == Result(One(column, v), field_spec_in, 0)
    IN
    CASE field_type \in {"char", "text", "html"} ->
            LET op == IF op1 = NoOp
                      THEN (IF field_type = "char" THEN "other" ELSE "merge")
                      ELSE op1
                filled == SelectSeq(fv1, TruthyStr)
            IN IF op = "first_not_null"
               THEN (IF filled # <<>> THEN Put(filled[1]) ELSE Nothing)
               ELSE IF op = "merge" THEN Put(<<JoinPipe(filled)>>)
               ELSE Nothing
      [] field_type \in {"integer", "float", "monetary"} ->
            LET r == numeric_operation(fv1, field_type, op1)
            IN IF r = None THEN Nothing ELSE Put(r[1])
      [] field_type = "boolean" ->
            LET fv2 == IF op1 # NoOp
                       THEN [i \in 1..Len(fv1) |-> IF fv1[i] = None THEN <<FALSE>> ELSE fv1[i]]
                       ELSE fv1
            IN CASE op1 = "and" -> Put(<<\A i \in 1..Len(fv2) : fv2[i][1]>>)
                 [] op1 = "or" -> Put(<<\E i \in 1..Len(fv2) : fv2[i][1]>>)
                 [] OTHER -> Nothing
      [] field_type \in {"jsonb", "serialized"} ->
            \* in "sql" mode the candidate is json.dumps(field_val) / Json(field_val);
            \* a JSON text is held as the dictionary it encodes
            IF (IF op1 = NoOp THEN "first_not_null" ELSE op1) = "first_not_null"
            THEN LET field_val == DictUnion(Reverse(fv1))
                 IN IF field_val # EmptyDict THEN Put(<<field_val>>) ELSE Nothing
            ELSE Nothing
      [] field_type \in {"date", "datetime"} ->
            LET fv2 == IF op1 # NoOp THEN SelectSeq(fv1, TruthyId) ELSE fv1
                op == IF fv2 # <<>> /\ op1 # NoOp THEN op1 ELSE "other"
                filled == SelectSeq(fv2, TruthyId)
                days == [i \in 1..Len(fv2) |-> fv2[i][1]]
            IN CASE op = "max" -> Put(<<MaxSeq(days)>>)
                 [] op = "min" -> Put(<<MinSeq(days)>>)
                 [] op = "first_not_null" /\ filled # <<>> -> Put(filled[1])
                 [] OTHER -> Nothing
      [] field_type = "many2many" /\ meth = "orm" ->
            \* field_vals is a recordset; the (4, id) commands are kept as the ids
            IF (IF op1 = NoOp THEN "merge" ELSE op1) = "merge"
            THEN Put(fv1) ELSE Nothing
      [] field_type = "one2many" /\ meth = "orm" ->
            \* field_vals.write({field.inverse_name: target_record.id}) is done by
            \* the caller of this operator whenever o2m_changes is 1
            IF (IF op1 = NoOp THEN "merge" ELSE op1) = "merge"
            THEN Result(EmptyDict, field_spec_in, 1) ELSE Nothing
      [] field_type = "binary" ->
            LET filled == SelectSeq(fv1, TruthyStr)
            IN IF (IF op1 = NoOp THEN "merge" ELSE op1) = "merge"
                  /\ ~TruthyStr(first_value) /\ filled # <<>>
               THEN Put(filled[1]) ELSE Nothing
      [] field_type \in {"many2one", "reference"} ->
            \* in "orm" mode field_vals is a recordset (a tuple of ids)
            LET fv2 == IF meth # "orm" THEN SelectSeq(fv1, TruthyId) ELSE fv1
            IN IF (IF op1 = NoOp THEN "merge" ELSE op1) = "merge"
                  /\ ~TruthyId(first_value) /\ fv2 # <<>>
               THEN (IF meth = "orm" THEN Put(<<fv2[1]>>) ELSE Put(fv2[1]))
               ELSE Nothing
      [] field_type = "many2one_reference" /\ meth = "orm" /\ env.model_field_known ->
            LET r == many2one_reference_operation(env, field_spec_in, fv1, column, op1,
                                                  first_value)
            IN Result(r.vals, r.field_spec, 0)
      [] field_type = "selection" ->
            LET filled == SelectSeq(fv1, TruthyStr)
            IN IF op1 = "first_not_null" /\ filled # <<>>
               THEN Put(filled[1]) ELSE Nothing
      [] OTHER -> Nothing

(***************************************************************************)
(* The store.  The merged model has the rows recs[id] with the fields of   *)
(* ModelFields; ids of AllIds \ Ids exist in no table.                     *)
(***************************************************************************)
Ids == {1, 2, 3}
AllIds == Ids \cup {4}
Tags == {10, 11}

\* model._fields of the merged model, in the order of the dictionary
ModelFields == <<
    [name |-> "parent_id", type |-> "many2one", store |-> TRUE, compute |-> FALSE,
     related |-> FALSE, model_field |-> "",
     translate |-> FALSE],
    [name |-> "qty", type |-> "float", store |-> TRUE, compute |-> FALSE,
     related |-> FALSE, model_field |-> "",
     translate |-> FALSE],
    [name |-> "res_id", type |-> "many2one_reference", store |-> TRUE, compute |-> FALSE,
     related |-> FALSE, model_field |-> "res_model",
     translate |-> FALSE],
    [name |-> "res_model", type |-> "char", store |-> TRUE, compute |-> FALSE,
     related |-> FALSE, model_field |-> "",
     translate |-> FALSE],
    [name |-> "tag_ids", type |-> "many2many", store |-> TRUE, compute |-> FALSE,
     related |-> FALSE, model_field |-> "",
     translate |-> FALSE],
    [name |-> "display_name", type |-> "char", store |-> FALSE, compute |-> TRUE,
     related |-> FALSE, model_field |-> "",
     translate |-> FALSE],
    [name |-> "name", type |-> "char", store |-> TRUE, compute |-> FALSE,
     related |-> FALSE, model_field |-> "",
     translate |-> TRUE],
    [name |-> "note", type |-> "text", store |-> TRUE, compute |-> FALSE,
     related |-> FALSE, model_field |-> "",
     translate |-> TRUE],
    [name |-> "body", type |-> "html", store |-> TRUE, compute |-> FALSE,
     related |-> FALSE, model_field |-> "",
     translate |-> FALSE],
    [name |-> "count", type |-> "integer", store |-> TRUE, compute |-> FALSE,
     related |-> FALSE, model_field |-> "",
     translate |-> FALSE],
    [name |-> "amount", type |-> "monetary", store |-> TRUE, compute |-> FALSE,
     related |-> FALSE, model_field |-> "",
     translate |-> FALSE],
    [name |-> "active", type |-> "boolean", store |-> TRUE, compute |-> FALSE,
     related |-> FALSE, model_field |-> "",
     translate |-> FALSE],
    [name |-> "date", type |-> "date", store |-> TRUE, compute |-> FALSE,
     related |-> FALSE, model_field |-> "",
     translate |-> FALSE],
    [name |-> "state", type |-> "selection", store |-> TRUE, compute |-> FALSE,
     related |-> FALSE, model_field |-> "",
     translate |-> FALSE],
    [name |-> "image", type |-> "binary", store |-> TRUE, compute |-> FALSE,
     related |-> FALSE, model_field |-> "",
     translate |-> FALSE],
    [name |-> "props", type |-> "serialized", store |-> TRUE, compute |-> FALSE,
     related |-> FALSE, model_field |-> "",
     translate |-> FALSE],
    [name |-> "total", type |-> "float", store |-> TRUE, compute |-> TRUE,
     related |-> FALSE, model_field |-> "",
     translate |-> FALSE],
    [name |-> "ref_ids", type |-> "one2many", store |-> TRUE, compute |-> FALSE,
     related |-> FALSE, model_field |-> "",
     translate |-> FALSE] >>

FieldNames == {ModelFields[i].name : i \in 1..Len(ModelFields)}

\* the fields with translate=True
TranslateFields ==
    {ModelFields[i].name : i \in {j \in 1..Len(ModelFields) : ModelFields[j].translate}}

\* the columns of the model's table that ir_model_fields knows, with their ttype
TableColumns == <<
    [name |-> "id", type |-> "integer"],
    [name |-> "parent_id", type |-> "many2one"],
    [name |-> "qty", type |-> "float"],
    [name |-> "res_id", type |-> "many2one_reference"],
    [name |-> "res_model", type |-> "char"],
    [name |-> "name", type |-> "char"],
    [name |-> "note", type |-> "text"],
    [name |-> "body", type |-> "html"],
    [name |-> "count", type |-> "integer"],
    [name |-> "amount", type |-> "monetary"],
    [name |-> "active", type |-> "boolean"],
    [name |-> "date", type |-> "date"],
    [name |-> "state", type |-> "selection"],
    [name |-> "image", type |-> "binary"],
    [name |-> "props", type |-> "serialized"],
    [name |-> "total", type |-> "float"] >>

DefaultRow == [parent_id |-> None, qty |-> None, res_id |-> <<0>>, res_model |-> None,
               name |-> None, note |-> None, body |-> None, count |-> None,
               amount |-> None, active |-> None, date |-> None, state |-> None,
               image |-> None, props |-> <<EmptyDict>>, total |-> None]

\* col IN record_ids, for a nullable column
InIds(col, ids) == col # None /\ col[1] \in ids

(***************************************************************************)
(* Python equality between values of different types: a fetched row is a   *)
(* tuple, a record id an int, and a tuple never equals an int.             *)
(***************************************************************************)
PyTuple(items) == [kind |-> "tuple", items |-> items]
PyInt(n) == [kind |-> "int", items |-> <<n>>]
PyEq(a, b) == a.kind = b.kind /\ a.items = b.items
\* x in ids, ids a list of ints
PyIn(x, ids) == \E i \in 1..Len(ids) : PyEq(x, PyInt(ids[i]))

(***************************************************************************)
(* _change_foreign_key_refs on one referencing table.  The rows of the     *)
(* table are [id, col, k]: col is the foreign key column, k the rest of    *)
(* the row (the other id of a junction table, whose rows have id 0).       *)
(***************************************************************************)
\* UPDATE table SET col = target on the rows of moved: does it break UNIQUE(col, k)
UniqueViolation(rows, moved, target) ==
    \E r \in moved : \E q \in rows \ {r} :
        q.k = r.k /\ (q.col = <<target>> \/ q \in moved)

SetCol(rows, moved, target) ==
    (rows \ moved) \cup {[r EXCEPT !.col = <<target>>] : r \in moved}

\* the per-row fallback of a table with an id column: one UPDATE ... WHERE id = row
\* per savepoint sp2, a unique violation rolls that one back
RECURSIVE FallbackById(_, _, _)
FallbackById(rows, todo, target) ==
    IF todo = <<>> THEN rows
    ELSE LET moved == {r \in rows : r.id = Head(todo)}
         IN FallbackById(IF UniqueViolation(rows, moved, target)
                         THEN rows ELSE SetCol(rows, moved, target),
                         Tail(todo), target)

\* the fallback of a table without id: target_column is the foreign key column
\* itself, so each UPDATE ... WHERE col = row moves every row of one duplicate
RECURSIVE FallbackByColumn(_, _, _)
FallbackByColumn(rows, todo, target) ==
    IF todo = <<>> THEN rows
    ELSE LET moved == {r \in rows : r.col = <<Head(todo)>>}
         IN FallbackByColumn(IF UniqueViolation(rows, moved, target)
                             THEN rows ELSE SetCol(rows, moved, target),
                             Tail(todo), target)

\* the tables the function can leave: the fallback loop of line 91 runs over
\* list(set(...)), one outcome for each order of it
change_foreign_key_refs_table(rows, has_id, unique, ids, target) ==
    LET moved == {r \in rows : InIds(r.col, ids)}
    IN IF ~(unique /\ UniqueViolation(rows, moved, target))
       THEN {SetCol(rows, moved, target)}                     \* one big swoop
       ELSE IF has_id
       THEN {FallbackById(rows, todo, target) : todo \in ListOfSet({r.id : r \in moved})}
       ELSE {{r \in FallbackByColumn(rows, todo, target) :
                  ~InIds(r.col, ids)} :                       \* delete remaining values
                todo \in ListOfSet({r.col[1] : r \in moved})}

\* the junction tables as rows [id, col, k]
TagRelRows(rel) == {[id |-> 0, col |-> <<p[1]>>, k |-> p[2]] : p \in rel}
TagRelOf(rows) == {<<r.col[1], r.k>> : r \in rows}
MRelRows(rel) == {[id |-> 0, col |-> <<p[2]>>, k |-> p[1]] : p \in rel}
MRelOf(rows) == {<<r.k, r.col[1]>> : r \in rows}

\* UPDATE of the model's own table: SET parent_id = target WHERE parent_id IN ids
RelinkParent(rows, ids, target) ==
    [i \in DOMAIN rows |->
        IF InIds(rows[i].parent_id, ids)
        THEN [rows[i] EXCEPT !.parent_id = <<target>>] ELSE rows[i]]

\* every (table, column) with a foreign key to the model's id, in the "sql" mode:
\* the model's own table rec, ref and the two junction tables
\* the result is the set of stores the function can leave
change_foreign_key_refs(d, ids, target, exclude) ==
    {[d EXCEPT
        !.recs = IF <<"rec", "parent_id">> \in exclude THEN @
                 ELSE RelinkParent(@, ids, target),
        !.ref = ref,
        !.tag_rel = TagRelOf(tag_rel),
        !.m_rel = MRelOf(m_rel)] :
      ref \in IF <<"ref", "col">> \in exclude THEN {d.ref}
              ELSE change_foreign_key_refs_table(d.ref, TRUE, d.ref_unique, ids, target),
      tag_rel \in IF <<"tag_rel", "rec_id">> \in exclude THEN {TagRelRows(d.tag_rel)}
                  ELSE change_foreign_key_refs_table(TagRelRows(d.tag_rel), FALSE, TRUE,
                                                     ids, target),
      m_rel \in IF <<"m_rel", "rec_id">> \in exclude THEN {MRelRows(d.m_rel)}
                ELSE change_foreign_key_refs_table(MRelRows(d.m_rel), FALSE, TRUE,
                                                   ids, target)}

(***************************************************************************)
(* The "orm" relinkers: many2one and many2many fields of ir.model.fields   *)
(* whose relation is the merged model.                                     *)
(***************************************************************************)
\* records.write({field_name: target_record_id}) on ref raises when the UPDATE
\* breaks the unique constraint of the table
Many2oneWriteFails(d, ids, target, exclude) ==
    /\ <<"ref", "col">> \notin exclude
    /\ d.ref_unique
    /\ UniqueViolation(d.ref, {r \in d.ref : InIds(r.col, ids)}, target)

\* the many2one fields are parent_id of the model itself and col of ref
change_many2one_refs_orm(d, ids, target, exclude) ==
    [d EXCEPT
        !.recs = IF <<"rec", "parent_id">> \in exclude THEN @
                 ELSE RelinkParent(@, ids, target),
        !.ref = IF <<"ref", "col">> \in exclude THEN @
                ELSE SetCol(@, {r \in @ : InIds(r.col, ids)}, target)]

\* records.write({field_name: [(3, x) for x in record_ids] + [(4, target)]}) for
\* the many2many field rec_ids of the model stored in table other; the test of
\* exclude_columns is made with (model._table, field_name)
change_many2many_refs_orm(d, ids, target, exclude) ==
    LET records == {p[1] : p \in {q \in d.m_rel : q[2] \in ids}}
    IN IF <<"other", "rec_ids">> \in exclude THEN d
       ELSE [d EXCEPT !.m_rel = {p \in @ : ~(p[1] \in records /\ p[2] \in ids)}
                                \cup {<<m, target>> : m \in records}]

(***************************************************************************)
(* _change_generic: the res_model / res_id references.  The tables that    *)
(* exist are ir_attachment and mail_followers; every row of them has the   *)
(* merged model as res_model.                                              *)
(***************************************************************************)
\* records.write(vals) / UPDATE ir_attachment SET res_id = target WHERE res_id IN ids
change_generic_attachment(d, ids, target) ==
    [d EXCEPT !.att = [a \in DOMAIN @ |-> IF @[a] \in ids THEN target ELSE @[a]]]

\* the rows of fol on record id
FollowersOf(fol, id) == {f \in DOMAIN fol : fol[f].res_id = id}

SetResId(fol, rows, target) ==
    [f \in DOMAIN fol |-> IF f \in rows THEN [fol[f] EXCEPT !.res_id = target] ELSE fol[f]]

\* lines 828-840: the result is the table and whether the write breaks
\* unique(res_model, res_id, partner_id)
change_generic_followers_orm(fol, ids, target) ==
    LET records == {f \in DOMAIN fol : fol[f].res_id \in ids}
        target_duplicated == {f \in FollowersOf(fol, target) :
                                \E r \in records : fol[r].partner = fol[f].partner}
        dup_partners == {fol[f].partner : f \in target_duplicated}
        duplicated == {r \in records : fol[r].partner \in dup_partners}
        moved == records \ duplicated
        written == SetResId(fol, moved, target)
    IN [fol |-> [f \in (DOMAIN fol) \ duplicated |-> written[f]],
        violation |-> \E f, g \in moved : f # g /\ fol[f].partner = fol[g].partner]

\* lines 876-894: one UPDATE per record id, in the order of record_ids
RECURSIVE FollowersLoop(_, _, _)
FollowersLoop(fol, ids_seq, target) ==
    IF ids_seq = <<>> THEN fol
    ELSE LET taken == {fol[f].partner : f \in FollowersOf(fol, target)}
             moved == {f \in FollowersOf(fol, Head(ids_seq)) : fol[f].partner \notin taken}
         IN FollowersLoop(SetResId(fol, moved, target), Tail(ids_seq), target)

\* lines 876-905: the loop, then the DELETE of the rows that were not updated
change_generic_followers_sql(fol, ids_seq, target) ==
    LET updated == FollowersLoop(fol, ids_seq, target)
    IN [f \in {g \in DOMAIN updated : updated[g].res_id \notin Range(ids_seq)} |->
            updated[f]]

\* the whole of _change_generic: the store it leaves and the error it raises
change_generic(d, ids_seq, target, exclude, meth) ==
    LET ids == Range(ids_seq)
        d1 == IF <<"ir_attachment", "res_id">> \in exclude THEN d
              ELSE change_generic_attachment(d, ids, target)
        orm == change_generic_followers_orm(d.fol, ids, target)
    IN IF <<"mail_followers", "res_id">> \in exclude
       THEN [db |-> d1, err |-> ""]
       ELSE IF meth = "sql"
       THEN [db |-> [d1 EXCEPT !.fol = change_generic_followers_sql(@, ids_seq, target)],
             err |-> ""]
       ELSE IF orm.violation /\ d.fol_unique
       THEN [db |-> d1, err |-> "UniqueViolation"]
       ELSE [db |-> [d1 EXCEPT !.fol = orm.fol], err |-> ""]

(***************************************************************************)
(* _change_translations_orm / _sql: the rows of ir_translation of type     *)
(* model whose name starts with the model's name, id -> [res_id, name,     *)
(* lang].  d.version is version_info[0].                                   *)
(***************************************************************************)
\* the (name, lang) groups of the rows on the records ids
TranslationGroups(trans, ids) ==
    {<<trans[t].name, trans[t].lang>> : t \in {u \in DOMAIN trans : trans[u].res_id \in ids}}

\* the rows of one group that are on one of the records ids
GroupRows(trans, ids, g) ==
    {t \in DOMAIN trans : /\ trans[t].res_id \in ids
                          /\ trans[t].name = g[1] /\ trans[t].lang = g[2]}

\* whether the target record has a row of the group
HasTargetTranslation(trans, target, g) ==
    \E t \in DOMAIN trans : /\ trans[t].res_id = target
                            /\ trans[t].name = g[1] /\ trans[t].lang = g[2]

\* the rows given to the target: the first of each group without target row
TranslationsPicked(trans, ids, target) ==
    {SortedSeq(GroupRows(trans, ids, g))[1] :
        g \in {h \in TranslationGroups(trans, ids) : ~HasTargetTranslation(trans, target, h)}}

\* lines 304-319: records[:1].res_id = target_record_id; records[1:].unlink()
change_translations_orm(d, ids, target, exclude) ==
    LET picked == TranslationsPicked(d.trans, ids, target)
        unlinked == {t \in DOMAIN d.trans : d.trans[t].res_id \in ids} \ picked
    IN IF d.version > 15 \/ <<"ir_translation", "res_id">> \in exclude THEN d
       ELSE [d EXCEPT !.trans = [t \in (DOMAIN @) \ unlinked |->
                                   IF t \in picked THEN [@[t] EXCEPT !.res_id = target]
                                   ELSE @[t]]]

\* change_translations_sql moving every row of the records to the target
change_translations_sql_all_moved(d, ids, target, exclude) ==
    IF d.version > 15 \/ <<"ir_translation", "res_id">> \in exclude THEN d
    ELSE [d EXCEPT !.trans = [t \in DOMAIN @ |->
                                IF @[t].res_id \in ids THEN [@[t] EXCEPT !.res_id = target]
                                ELSE @[t]]]

\* lines 335-374: the UPDATE of min(id) per (name, lang) that has no row on the
\* target, then the DELETE of the rows still on the records ids
change_translations_sql(d, ids, target, exclude) ==
    LET to_update == {CHOOSE t \in GroupRows(d.trans, ids, g) :
                          \A u \in GroupRows(d.trans, ids, g) : t <= u :
                        g \in {h \in TranslationGroups(d.trans, ids) :
                                 ~HasTargetTranslation(d.trans, target, h)}}
        updated == [t \in DOMAIN d.trans |->
                       IF t \in to_update THEN [d.trans[t] EXCEPT !.res_id = target]
                       ELSE d.trans[t]]
    IN IF d.version > 15 \/ <<"ir_translation", "res_id">> \in exclude THEN d
       ELSE [d EXCEPT !.trans = [t \in {u \in DOMAIN updated :
                                          updated[u].res_id \notin ids} |-> updated[t]]]

(***************************************************************************)
(* _check_recurrence: the self-referencing foreign key is parent_id, read  *)
(* with SELECT parent_id FROM table WHERE id = target; fetchall() gives a  *)
(* list of row tuples and new_parent_row[0] is the first row.              *)
(***************************************************************************)
check_recurrence(d, ids, target) ==
    LET new_parent_row == IF target \in DOMAIN d.recs
                          THEN <<PyTuple(<<d.recs[target].parent_id>>)>>
                          ELSE <<>>
    IN new_parent_row # <<>> /\ PyIn(new_parent_row[1], ids)

(***************************************************************************)
(* Deleting rows of the merged model: the foreign keys react as declared.  *)
(***************************************************************************)
\* DELETE FROM table WHERE id IN ids is refused by an ON DELETE RESTRICT key
DeleteRestricted(d, ids) ==
    d.ref_ondelete = "restrict" /\ \E r \in d.ref : InIds(r.col, ids)

DeleteRows(d, ids) ==
    [d EXCEPT
        !.recs = [i \in (DOMAIN d.recs) \ ids |->
                    IF InIds(d.recs[i].parent_id, ids)
                    THEN [d.recs[i] EXCEPT !.parent_id = None] ELSE d.recs[i]],
        !.ref = IF d.ref_ondelete = "cascade"
                THEN {r \in @ : ~InIds(r.col, ids)}
                ELSE {IF InIds(r.col, ids) THEN [r EXCEPT !.col = None] ELSE r : r \in @},
        !.tag_rel = {p \in @ : p[1] \notin ids},
        !.m_rel = {p \in @ : p[2] \notin ids}]

DeleteImd(d, ids) == [d EXCEPT !.imd = @ \ ids]

DeleteAtt(d, ids) ==
    [d EXCEPT !.att = [a \in {b \in DOMAIN @ : @[b] \notin ids} |-> @[a]]]

\* _delete_records_sql deleting the rows of the table only
delete_records_sql_rows_only(d, ids) ==
    IF DeleteRestricted(d, ids) THEN d ELSE DeleteRows(d, ids)

\* _delete_records_sql: three statements; the last one may be refused
delete_records_sql(d, ids) ==
    LET d2 == DeleteAtt(DeleteImd(d, ids), ids)
    IN IF DeleteRestricted(d2, ids) THEN d2 ELSE DeleteRows(d2, ids)

\* _delete_records_orm: unlink() of the existing records, which also removes
\* their ir_model_data and ir_attachment rows
delete_records_orm(d, ids) ==
    LET found == ids \cap DOMAIN d.recs
    IN IF found = {} \/ DeleteRestricted(d, found) THEN d
       ELSE DeleteAtt(DeleteImd(DeleteRows(d, found), found), found)

(***************************************************************************)
(* Value reconciliation, "orm" mode (_adjust_merged_values_orm).           *)
(***************************************************************************)
RECURSIVE Dedup(_)
Dedup(s) ==
    IF s = <<>> THEN <<>>
    ELSE LET rest == Dedup(SelectSeq(Tail(s), LAMBDA x : x # Head(s)))
         IN <<Head(s)>> \o rest

RECURSIVE Concat(_)
Concat(ss) == IF ss = <<>> THEN <<>> ELSE Head(ss) \o Concat(Tail(ss))

\* the many2many value of one record, a recordset in id order
TagsOf(d, id) == SortedSeq({p[2] : p \in {q \in d.tag_rel : q[1] = id}})

\* the one2many value of one record: the rows of ref whose col is the record
RefsOf(d, id) == SortedSeq({r.id : r \in {q \in d.ref : q.col = <<id>>}})

\* model._fields[name].type
FieldTypes ==
    [n \in FieldNames |->
        ModelFields[CHOOSE i \in 1..Len(ModelFields) : ModelFields[i].name = n].type]

FieldType(name) == FieldTypes[name]

\* getattr(record, name) through the ORM: a NULL number reads as 0, a NULL
\* boolean as False
Getattr(d, id, name) ==
    CASE name = "tag_ids" -> TagsOf(d, id)
      [] name = "ref_ids" -> RefsOf(d, id)
      [] FieldType(name) \in {"integer", "float", "monetary", "many2one_reference"} ->
            <<ZeroIfNot(d.recs[id][name])>>
      [] FieldType(name) = "boolean" ->
            IF d.recs[id][name] = None THEN <<FALSE>> ELSE d.recs[id][name]
      [] FieldType(name) = "serialized" ->      \* a NULL column reads as {}
            IF d.recs[id][name] = None THEN <<EmptyDict>> ELSE d.recs[id][name]
      [] d.version > 15 /\ name \in TranslateFields ->
            \* the column holds {language: text}; what the ORM returns for it is
            \* decided outside the library: the text of the language of the
            \* environment, or the dictionary
            IF d.recs[id][name] = None THEN None
            ELSE IF d.translate_read = "text" THEN <<d.recs[id][name][1]["en"]>>
            ELSE d.recs[id][name]
      [] OTHER -> d.recs[id][name]

\* all_records.mapped(name): a list of values, or a recordset for a relation
Mapped(d, all, name) ==
    LET each == [i \in 1..Len(all) |-> Getattr(d, all[i], name)]
    IN IF FieldType(name) \in {"many2one", "many2many", "one2many"}
       THEN Dedup(Concat(each)) ELSE each

\* the fields _adjust_merged_values_orm skips, given the field_spec
Skipped(fs, f) ==
    \/ DictGet(fs, "openupgrade_other_fields", "") = "preserve" /\ f.name \notin DOMAIN fs
    \/ ~f.store \/ f.compute \/ f.related

\* the loop over model._fields from field number i on; acc holds vals,
\* o2m_changes, the field_spec dictionary, the rows of ref as the one2many
\* writes leave them and the error that ended the loop
RECURSIVE OrmFieldLoop(_, _, _, _, _)
OrmFieldLoop(d, ids_seq, target, i, acc) ==
    IF i > Len(ModelFields) \/ acc.err # "" THEN acc
    ELSE LET f == ModelFields[i]
             \* field_vals.write({field.inverse_name: target_record.id})
             moved == {q \in acc.ref : InIds(q.col, Range(ids_seq))}
             o2m_fails == d.ref_unique /\ UniqueViolation(acc.ref, moved, target)
             all == <<target>> \o ids_seq
             env == [origin_value |-> Getattr(d, ids_seq[1], f.name),
                     target_value |-> Getattr(d, target, f.name),
                     model_field |-> f.model_field,
                     model_field_known |-> f.model_field \in FieldNames,
                     list_model_field |->
                         IF f.model_field \in FieldNames
                         THEN Mapped(d, all, f.model_field) ELSE <<>>]
             \* line 635
             field_type == IF d.version > 15 /\ f.translate THEN "jsonb" ELSE f.type
             op == DictGet(acc.field_spec, f.name, NoOp)
             _list == Mapped(d, all, f.name)
             \* the "jsonb" operation on texts: "x or {}" is {} for an empty text,
             \* "field_val |= x" raises ValueError for any other text
             texts == field_type = "jsonb" /\ d.translate_read = "text"
             value_error ==
                 /\ texts
                 /\ op \in {NoOp, "first_not_null", "first_from_origin"}
                 /\ \E j \in 1..Len(_list) : TruthyStr(_list[j])
             r == apply_operations_by_field_type(env, acc.field_spec,
                      IF texts THEN [j \in 1..Len(_list) |-> None] ELSE _list,
                      field_type, f.name, op, "orm")
         IN IF Skipped(acc.field_spec, f)
            THEN OrmFieldLoop(d, ids_seq, target, i + 1, acc)
            ELSE IF value_error
            THEN [acc EXCEPT !.err = "ValueError"]
            ELSE OrmFieldLoop(d, ids_seq, target, i + 1,
                     [vals |-> DictUpdate(acc.vals, r.vals),
                      o2m_changes |-> acc.o2m_changes + r.o2m_changes,
                      field_spec |-> r.field_spec,
                      ref |-> IF r.o2m_changes = 1 /\ ~o2m_fails
                              THEN SetCol(acc.ref, moved, target) ELSE acc.ref,
                      err |-> IF r.o2m_changes = 1 /\ o2m_fails
                              THEN "UniqueViolation" ELSE ""])

\* "Curate values that haven't changed": the keys kept in new_vals.  A many2many
\* candidate is a list of ids tested with "not in" against a list of ids, a
\* many2one candidate an id compared with a recordset
changed_values_orm(d, target, vals) ==
    {f \in DOMAIN vals :
        CASE FieldType(f) = "many2many" ->
                ~PyIn([kind |-> "list", items |-> vals[f]], TagsOf(d, target))
          [] FieldType(f) = "many2one" ->
                ~PyEq(PyInt(vals[f][1]),
                      [kind |-> "recordset", items |-> d.recs[target].parent_id])
          [] OTHER -> vals[f] # Getattr(d, target, f)}

\* the foreign key rec.parent_id -> rec.id refuses a write of the survivor that
\* names a record the table does not hold (IntegrityError 23503)
WriteRefused(d, new_vals) ==
    /\ "parent_id" \in DOMAIN new_vals
    /\ new_vals["parent_id"] # None
    /\ new_vals["parent_id"][1] \notin DOMAIN d.recs

\* target_record.write(new_vals), when the store accepts it
write_orm(d, target, new_vals) ==
    [d EXCEPT
        !.recs[target] = [name \in DOMAIN d.recs[target] |->
                            IF name \in DOMAIN new_vals
                            THEN new_vals[name] ELSE d.recs[target][name]],
        !.tag_rel = IF "tag_ids" \in DOMAIN new_vals
                    THEN @ \cup {<<target, t>> : t \in Range(new_vals["tag_ids"])}
                    ELSE @]

(***************************************************************************)
(* Value reconciliation, "sql" mode (_adjust_merged_values_sql).           *)
(***************************************************************************)
ColumnValue(d, id, name) == IF name = "id" THEN <<id>> ELSE d.recs[id][name]

\* information_schema.columns.data_type of a column of the model's table: from
\* version 16 on the translatable fields are stored in jsonb columns
data_type(d, name) ==
    IF d.version > 15 /\ name \in TranslateFields THEN "jsonb" ELSE "other"

\* in "sql" mode apply_operations_by_field_type reads nothing through the ORM
NoEnv == [origin_value |-> None, target_value |-> None, model_field |-> "",
          model_field_known |-> FALSE, list_model_field |-> <<>>]

\* the loop over dict_column_type from column number i on; order is the order
\* in which the SELECT returned the rows
\* Lines 717-720 parse a serialized column with json.loads, which raises
\* TypeError on a NULL.  The result holds vals and the error that ended the loop
RECURSIVE SqlColumnLoop(_, _, _, _, _)
SqlColumnLoop(d, order, fs, i, vals) ==
    IF i > Len(TableColumns) THEN [vals |-> vals, err |-> ""]
    ELSE LET c == TableColumns[i]
             _list == [j \in 1..Len(order) |-> ColumnValue(d, order[j], c.name)]
             \* lines 715-716
             field_type == IF data_type(d, c.name) = "jsonb" THEN "jsonb" ELSE c.type
             r == apply_operations_by_field_type(NoEnv, fs, _list,
                      field_type, c.name, DictGet(fs, c.name, NoOp), "sql")
         IN IF DictGet(fs, "openupgrade_other_fields", "") = "preserve"
               /\ c.name \notin DOMAIN fs
            THEN SqlColumnLoop(d, order, fs, i + 1, vals)
            ELSE IF field_type = "serialized" /\ \E j \in 1..Len(_list) : _list[j] = None
            THEN [vals |-> vals, err |-> "TypeError"]
            ELSE SqlColumnLoop(d, order, fs, i + 1, DictUpdate(vals, r.vals))

\* "Curate values that haven't changed": vals[column] != record_vals[0], where
\* record_vals[0] is the whole row fetched by dictfetchall(), a dictionary
changed_values_sql(d, target, vals) ==
    {c \in DOMAIN vals :
        ~PyEq([kind |-> "value", items |-> vals[c]],
              [kind |-> "dict", items |-> d.recs[target]])}

\* UPDATE table SET ... WHERE id = target_record_id, when the store accepts it
update_sql(d, target, new_vals) ==
    [d EXCEPT
        !.recs[target] = [name \in DOMAIN d.recs[target] |->
                            IF name \in DOMAIN new_vals
                            THEN new_vals[name] ELSE d.recs[target][name]]]

\* the orders in which a SELECT without ORDER BY can return the rows ids
RowOrders(ids) == {s \in [1..Cardinality(ids) -> ids] : Range(s) = ids}

(***************************************************************************)
(* Initial states: the arguments of one merge_records call and the store   *)
(* it runs on.  Each family of stores varies one kind of data around       *)
(* BaseDb; the survivor is record 1.                                       *)
(***************************************************************************)
Methods == {"orm", "sql"}

RecordIdChoices == {<<2>>, <<2, 3>>, <<3, 2>>, <<1, 2>>, <<4>>, <<2, 4>>}

BaseDb == [recs |-> [i \in Ids |-> DefaultRow],
           ref |-> {}, ref_unique |-> FALSE, ref_ondelete |-> "set null",
           tag_rel |-> {}, m_rel |-> {},
           imd |-> Ids,
           att |-> [a \in {40, 41} |-> IF a = 40 THEN 2 ELSE 1],
           fol |-> <<>>, fol_unique |-> TRUE,
           trans |-> <<>>, version |-> 15, translate_read |-> "text"]

OptIds(S) == {None} \cup {<<i>> : i \in S}

HierDbs ==
    {[BaseDb EXCEPT !.recs = [i \in Ids |-> [DefaultRow EXCEPT !.parent_id = p[i]]]] :
        p \in {q \in [Ids -> OptIds(Ids)] :
                 q[3] = None /\ \A i \in Ids : q[i] # <<i>>}}

QtyDbs ==
    {[BaseDb EXCEPT !.recs = [i \in Ids |-> [DefaultRow EXCEPT !.qty = q[i]]]] :
        q \in [Ids -> {None} \cup {<<n>> : n \in 0..MaxQty}]}

ResDbs ==
    {[BaseDb EXCEPT !.recs = [i \in Ids |->
            IF i = 3 THEN DefaultRow
            ELSE [DefaultRow EXCEPT !.res_id = r[i], !.res_model = m[i]]]] :
        r \in [{1, 2} -> {<<0>>, <<7>>}], m \in [{1, 2} -> {None, <<"x">>}]}

TagDbs ==
    {[BaseDb EXCEPT !.tag_rel = t] :
        t \in SUBSET {<<1, 10>>, <<2, 10>>, <<2, 11>>, <<3, 10>>}}

MRelDbs ==
    {[BaseDb EXCEPT !.m_rel = t] :
        t \in SUBSET {<<20, 1>>, <<20, 2>>, <<21, 2>>, <<21, 3>>}}

RefDbs ==
    {[BaseDb EXCEPT !.ref = t, !.ref_unique = u, !.ref_ondelete = o] :
        t \in SUBSET {[id |-> 30, col |-> <<1>>, k |-> "a"],
                      [id |-> 31, col |-> <<2>>, k |-> "a"],
                      [id |-> 32, col |-> <<2>>, k |-> "b"],
                      [id |-> 33, col |-> <<3>>, k |-> "b"]},
        u \in BOOLEAN, o \in {"cascade", "set null", "restrict"}}

\* a store where a record has a duplicate as parent and the rows of ref collide
RefHierDbs ==
    {[BaseDb EXCEPT !.recs = [i \in Ids |-> [DefaultRow EXCEPT
                                  !.parent_id = IF i = 3 THEN <<2>> ELSE None]],
                    !.ref = {[id |-> 30, col |-> <<1>>, k |-> "a"],
                             [id |-> 31, col |-> <<2>>, k |-> "a"]},
                    !.ref_unique = TRUE]}

\* the stores where one field of the three records varies over vals
FieldDbs(name, values) ==
    {[BaseDb EXCEPT !.recs = [i \in Ids |-> [DefaultRow EXCEPT ![name] = v[i]]]] :
        v \in [Ids -> values]}

StrVals == {None, <<"a">>, <<"b">>}
IntVals == {None, <<1>>, <<2>>}
BoolVals == {None, <<TRUE>>, <<FALSE>>}

TypedDbs ==
    FieldDbs("name", StrVals) \cup FieldDbs("note", StrVals)
    \cup FieldDbs("body", StrVals) \cup FieldDbs("count", IntVals)
    \cup FieldDbs("amount", IntVals) \cup FieldDbs("active", BoolVals)
    \cup FieldDbs("date", IntVals) \cup FieldDbs("state", StrVals)
    \cup FieldDbs("image", StrVals)

\* values of the serialized field props: the JSON text of a dictionary, or NULL
PropsVals == {None, <<One("a", 1)>>, <<One("b", 1)>>,
              <<DictUpdate(One("a", 2), One("b", 2))>>}

PropsDbs == FieldDbs("props", PropsVals)

\* values of the translatable field note on version 16: {language: text}, or NULL
JsonbVals == {None, <<One("en", "")>>, <<One("en", "a")>>,
              <<DictUpdate(One("en", "b"), One("fr", "c"))>>}

JsonbDbs ==
    {[d EXCEPT !.version = 16, !.translate_read = r] :
        d \in FieldDbs("note", JsonbVals), r \in {"text", "dict"}}

\* stores where two fields of the survivor and of record 2 have values
QtyNoteDbs ==
    {[BaseDb EXCEPT !.recs = [i \in Ids |->
            IF i = 3 THEN DefaultRow
            ELSE [DefaultRow EXCEPT !.qty = q[i], !.note = n[i]]]] :
        q \in [{1, 2} -> {None, <<1>>}], n \in [{1, 2} -> {None, <<"a">>}]}

\* the stored computed field total
TotalDbs == FieldDbs("total", {None, <<1>>})

\* followers: partner 7 may follow each record, partner 8 record 2
FolDbs ==
    {[BaseDb EXCEPT !.fol = [f \in rows |->
                                CASE f = 50 -> [res_id |-> 1, partner |-> 7]
                                  [] f = 51 -> [res_id |-> 2, partner |-> 7]
                                  [] f = 52 -> [res_id |-> 3, partner |-> 7]
                                  [] f = 53 -> [res_id |-> 2, partner |-> 8]],
                    !.fol_unique = u] :
        rows \in SUBSET {50, 51, 52, 53}, u \in BOOLEAN}

\* translations of the fields name and note; a record has at most one row per
\* (name, lang)
TransDbs ==
    {[BaseDb EXCEPT !.trans = [t \in rows |->
                                CASE t = 60 -> [res_id |-> 1, name |-> "rec,name", lang |-> "en"]
                                  [] t = 61 -> [res_id |-> 3, name |-> "rec,name", lang |-> "en"]
                                  [] t = 62 -> [res_id |-> 2, name |-> "rec,name", lang |-> "en"]
                                  [] t = 63 -> [res_id |-> 2, name |-> "rec,name", lang |-> "fr"]
                                  [] t = 64 -> [res_id |-> 3, name |-> "rec,note", lang |-> "en"]],
                    !.version = v] :
        rows \in SUBSET {60, 61, 62, 63, 64}, v \in {15, 16}}

Preserve == One("openupgrade_other_fields", "preserve")

\* the field_spec arguments tried with each family; NoSpec is field_spec=None
NoSpec == [given |-> FALSE, dict |-> EmptyDict]
Given(dict) == [given |-> TRUE, dict |-> dict]

\* triples <<store, field_spec, exclude_columns>>
Scenarios ==
    (HierDbs \X {NoSpec, Given(EmptyDict), Given(Preserve)} \X {{}})
    \cup (HierDbs \X {Given(EmptyDict)} \X {{<<"rec", "parent_id">>}})
    \cup (QtyDbs \X {Given(EmptyDict), Given(One("qty", "sum")), Given(One("qty", "max")),
                     Given(One("qty", "first_from_origin")),
                     Given(One("qty", "first_not_null")),
                     Given(DictUpdate(Preserve, One("qty", "other")))} \X {{}})
    \cup (ResDbs \X {Given(EmptyDict), Given(One("res_model", "first_not_null")),
                     Given(DictUpdate(Preserve, One("res_id", "merge"))),
                     Given(DictUpdate(One("res_id", "other"),
                                      One("res_model", "first_not_null")))} \X {{}})
    \cup (TagDbs \X {Given(EmptyDict), Given(Preserve), Given(One("tag_ids", "other"))}
                 \X {{}})
    \cup (TagDbs \X {Given(EmptyDict)} \X {{<<"tag_rel", "rec_id">>}})
    \cup (MRelDbs \X {NoSpec, Given(EmptyDict)} \X {{}})
    \cup (MRelDbs \X {NoSpec} \X {{<<"m_rel", "rec_id">>}, {<<"other", "rec_ids">>}})
    \cup (RefDbs \X {NoSpec, Given(EmptyDict), Given(Preserve)} \X {{}})
    \cup (RefDbs \X {Given(EmptyDict)} \X {{<<"ref", "col">>}})
    \cup (RefHierDbs \X {NoSpec} \X {{}})
    \cup (QtyNoteDbs \X {Given(DictUpdate(Preserve, One("qty", "sum")))} \X {{}})
    \cup (FolDbs \X {NoSpec} \X {{}, {<<"mail_followers", "res_id">>}})
    \cup (TransDbs \X {NoSpec} \X {{}, {<<"ir_translation", "res_id">>}})
    \cup (TypedDbs \X {Given(EmptyDict)} \X {{}})
    \cup (PropsDbs \X {Given(EmptyDict), Given(Preserve)} \X {{}})
    \cup (JsonbDbs \X {Given(EmptyDict)} \X {{}})
    \cup (TotalDbs \X {Given(EmptyDict), Given(Preserve)} \X {{}})

\* last.before holds the survivor's values of the candidate fields, as stored when
\* the candidates were compared with them
NoLast == [ran |-> FALSE, vals |-> EmptyDict, before |-> EmptyDict, new_vals |-> {},
           wrote |-> FALSE, deleted |-> FALSE, order |-> <<>>]

Init ==
    /\ method \in Methods
    /\ delete \in BOOLEAN
    /\ args_record_ids \in RecordIdChoices
    /\ record_ids = args_record_ids
    /\ target_record_id = 1
    /\ \E sc \in Scenarios :
        /\ db = sc[1]
        /\ has_field_spec = sc[2].given
        /\ field_spec = sc[2].dict
        /\ exclude_columns = sc[3]
    /\ field_spec0 = field_spec
    /\ db0 = db
    /\ pc = "start"
    /\ exit = ""
    /\ err = ""
    /\ log = <<>>
    /\ last = NoLast
    /\ call = <<>>
    /\ ret = <<>>

(***************************************************************************)
(* merge_records, step by step.                                            *)
(***************************************************************************)
ArgIds == Range(args_record_ids)

Inputs == <<method, delete, has_field_spec, field_spec0, args_record_ids,
            target_record_id, exclude_columns, db0, call, ret>>

Raise(e) == pc' = "done" /\ exit' = "raised" /\ err' = e

Return(how) == pc' = "done" /\ exit' = how /\ err' = ""

Goto(step) == pc' = step /\ exit' = "" /\ err' = ""

\* Validate without the test of lines 1046-1049
Validate_NoCheck ==
    /\ pc = "start"
    /\ Goto("generic")
    /\ UNCHANGED <<Inputs, field_spec, record_ids, db, log, last>>

\* lines 1038-1049: the target may not be one of the records to merge
Validate ==
    /\ pc = "start"
    /\ IF target_record_id \in ArgIds THEN Raise("Exception") ELSE Goto("generic")
    /\ UNCHANGED <<Inputs, field_spec, record_ids, db, log, last>>

\* line 1050
ChangeGeneric ==
    /\ pc = "generic"
    /\ LET r == change_generic(db, args_record_ids, target_record_id, exclude_columns,
                               method)
       IN /\ db' = r.db
          /\ IF r.err # "" THEN Raise(r.err) ELSE Goto("exists")
    /\ log' = IF method = "sql" \/ db' # db THEN Append(log, "change_generic") ELSE log
    /\ UNCHANGED <<Inputs, field_spec, record_ids, last>>

\* lines 1053-1055 and 1071-1085: keep the record ids that exist.  The "orm"
\* mode keeps them in the order of the argument; the "sql" mode takes them in
\* the order the SELECT of line 1077, which has no ORDER BY, returns the rows
CheckExists ==
    /\ pc = "exists"
    /\ IF method = "orm"
       THEN record_ids' = SelectSeq(args_record_ids, LAMBDA i : i \in DOMAIN db.recs)
       ELSE record_ids' \in RowOrders(ArgIds \cap DOMAIN db.recs)
    /\ IF record_ids' = <<>> THEN Return("no_records") ELSE Goto("recurrence")
    /\ UNCHANGED <<Inputs, field_spec, db, log, last>>

\* lines 1056-1057 and 1086-1089
CheckRecurrence ==
    /\ pc = "recurrence"
    /\ IF check_recurrence(db, record_ids, target_record_id)
       THEN Return("recursion")
       ELSE Goto(IF method = "orm" THEN "m2o" ELSE "fk")
    /\ UNCHANGED <<Inputs, field_spec, record_ids, db, log, last>>

\* line 1058.  The fields are written in the order the search of line 133
\* returns them, which has no order given: when the write of ref.col raises,
\* rec.parent_id has been relinked before it or not at all
ChangeMany2oneRefsOrm ==
    /\ pc = "m2o"
    /\ IF Many2oneWriteFails(db, ArgIds, target_record_id, exclude_columns)
       THEN /\ Raise("UniqueViolation")
            /\ db' \in {db, change_many2one_refs_orm(db, ArgIds, target_record_id,
                                              exclude_columns \cup {<<"ref", "col">>})}
       ELSE /\ Goto("m2m")
            /\ db' = change_many2one_refs_orm(db, ArgIds, target_record_id,
                                              exclude_columns)
    /\ log' = IF db' # db THEN Append(log, "change_many2one_refs_orm") ELSE log
    /\ UNCHANGED <<Inputs, field_spec, record_ids, last>>

\* line 1059
ChangeMany2manyRefsOrm ==
    /\ pc = "m2m"
    /\ db' = change_many2many_refs_orm(db, ArgIds, target_record_id, exclude_columns)
    /\ log' = IF db' # db THEN Append(log, "change_many2many_refs_orm") ELSE log
    /\ Goto("translations")
    /\ UNCHANGED <<Inputs, field_spec, record_ids, last>>

\* lines 1060-1061: no model has a field of type reference, so
\* _change_reference_refs_orm finds no record to write
ChangeTranslationsOrm ==
    /\ pc = "translations"
    /\ method = "orm"
    /\ db' = change_translations_orm(db, ArgIds, target_record_id, exclude_columns)
    /\ log' = IF db' # db THEN Append(log, "change_translations_orm") ELSE log
    /\ Goto("adjust")
    /\ UNCHANGED <<Inputs, field_spec, record_ids, last>>

\* lines 1092-1093: _change_reference_refs_sql finds no column to update
ChangeTranslationsSql ==
    /\ pc = "translations"
    /\ method = "sql"
    /\ db' = change_translations_sql(db, ArgIds, target_record_id, exclude_columns)
    /\ log' = IF db' # db THEN Append(log, "change_translations_sql") ELSE log
    /\ Goto("adjust")
    /\ UNCHANGED <<Inputs, field_spec, record_ids, last>>

\* line 1091
ChangeForeignKeyRefs ==
    /\ pc = "fk"
    /\ db' \in change_foreign_key_refs(db, ArgIds, target_record_id, exclude_columns)
    /\ log' = Append(log, "change_foreign_key_refs")
    /\ Goto("translations")
    /\ UNCHANGED <<Inputs, field_spec, record_ids, last>>

\* lines 1062-1065: _adjust_merged_values_orm.  Reading a field of a record
\* that does not exist raises MissingError
AdjustMergedValuesOrm ==
    /\ pc = "adjust"
    /\ method = "orm"
    /\ LET found == ArgIds \cap DOMAIN db.recs
           reads == \E i \in 1..Len(ModelFields) : ~Skipped(field_spec, ModelFields[i])
       IN IF reads /\ found # ArgIds
          THEN /\ Raise("MissingError")
               /\ UNCHANGED <<field_spec, db, log, last>>
          ELSE \E acc \in {OrmFieldLoop(db, args_record_ids, target_record_id, 1,
                              [vals |-> EmptyDict, o2m_changes |-> 0,
                               field_spec |-> field_spec, ref |-> db.ref, err |-> ""])} :
          LET looped == [db EXCEPT !.ref = acc.ref]
              new_vals == changed_values_orm(looped, target_record_id, acc.vals)
              deleted == IF delete THEN delete_records_orm(looped, ArgIds) ELSE looped
              o2m_log == IF looped # db THEN <<"write one2many">> ELSE <<>>
          IN IF acc.err # ""
          THEN /\ Raise(acc.err)
               /\ field_spec' = acc.field_spec
               /\ UNCHANGED <<db, log, last>>
          ELSE IF acc.vals = EmptyDict
          THEN /\ Goto("recompute")
               /\ field_spec' = acc.field_spec
               /\ last' = [NoLast EXCEPT !.ran = TRUE]
               /\ db' = looped
               /\ log' = log \o o2m_log
          ELSE IF delete /\ DeleteRestricted(looped, found)
          THEN /\ Raise("ForeignKeyViolation")
               /\ field_spec' = acc.field_spec
               /\ db' = looped
               /\ log' = log \o o2m_log
               /\ UNCHANGED last
          ELSE IF WriteRefused(deleted, [f \in new_vals |-> acc.vals[f]])
          THEN /\ Raise("ForeignKeyViolation")
               /\ field_spec' = acc.field_spec
               /\ db' = deleted
               /\ log' = log \o o2m_log
                             \o (IF delete /\ found # {} THEN <<"unlink records">> ELSE <<>>)
               /\ UNCHANGED last
          ELSE /\ Goto("recompute")
               /\ field_spec' = acc.field_spec
               /\ db' = IF new_vals # {}
                        THEN write_orm(deleted, target_record_id,
                                       [f \in new_vals |-> acc.vals[f]])
                        ELSE deleted
               /\ log' = log \o o2m_log
                             \o (IF delete /\ found # {} THEN <<"unlink records">> ELSE <<>>)
                             \o (IF new_vals # {} THEN <<"write target">> ELSE <<>>)
               /\ last' = [ran |-> TRUE, vals |-> acc.vals,
                           before |-> [f \in DOMAIN acc.vals |->
                                         Getattr(db, target_record_id, f)],
                           new_vals |-> new_vals,
                           wrote |-> new_vals # {}, deleted |-> delete /\ found # {},
                           order |-> <<target_record_id>> \o args_record_ids]
    /\ UNCHANGED <<Inputs, record_ids>>

\* the values recompute() can give the stored computed field total
RecomputedTotals == {<<0>>, <<1>>}

\* lines 1066-1069: flush_model() from version 16 on, recompute() before.  The
\* writes of the reconciliation were applied when they were made, so what is
\* left is the recomputation of the stored computed fields the reconciliation
\* marked.  The compute method is not part of the library: when the
\* reconciliation wrote to the survivor or unlinked records, total of the
\* survivor keeps its value or takes any other one
Recompute ==
    /\ pc = "recompute"
    /\ IF last.wrote \/ last.deleted
       THEN \E v \in RecomputedTotals \cup {db.recs[target_record_id].total} :
                db' = [db EXCEPT !.recs[target_record_id].total = v]
       ELSE db' = db
    /\ log' = Append(log, IF db.version > 15 THEN "flush_model" ELSE "recompute")
    /\ Return("merged")
    /\ UNCHANGED <<Inputs, field_spec, record_ids, last>>

\* lines 1094-1096: _adjust_merged_values_sql.  The SELECT that reads the rows
\* has no ORDER BY
AdjustMergedValuesSql ==
    /\ pc = "adjust"
    /\ method = "sql"
    /\ has_field_spec
    /\ \E order \in RowOrders((ArgIds \cup {target_record_id}) \cap DOMAIN db.recs) :
      \E looped \in {SqlColumnLoop(db, order, field_spec, 1, EmptyDict)} :
        LET vals == looped.vals
            new_vals == changed_values_sql(db, target_record_id, vals)
            deleted == IF delete THEN delete_records_sql(db, ArgIds) ELSE db
        IN IF looped.err # ""
           THEN /\ Raise(looped.err)
                /\ UNCHANGED <<db, log, last>>
           ELSE IF vals = EmptyDict \/ new_vals = {}
           THEN /\ Return("merged")
                /\ last' = [NoLast EXCEPT !.ran = TRUE, !.vals = vals, !.order = order]
                /\ UNCHANGED <<db, log>>
           ELSE IF delete /\ DeleteRestricted(deleted, ArgIds)
           THEN /\ Raise("ForeignKeyViolation")
                /\ db' = deleted
                /\ log' = log \o <<"delete ir_model_data", "delete ir_attachment">>
                /\ UNCHANGED last
           ELSE IF WriteRefused(deleted, [c \in new_vals |-> vals[c]])
           THEN /\ Raise("ForeignKeyViolation")
                /\ db' = deleted
                /\ log' = log \o (IF delete
                                  THEN <<"delete ir_model_data", "delete ir_attachment",
                                         "delete records">>
                                  ELSE <<>>)
                /\ UNCHANGED last
           ELSE /\ Return("merged")
                /\ db' = update_sql(deleted, target_record_id,
                                    [c \in new_vals |-> vals[c]])
                /\ log' = log \o (IF delete
                                  THEN <<"delete ir_model_data", "delete ir_attachment",
                                         "delete records">>
                                  ELSE <<>>)
                              \o <<"write target">>
                /\ last' = [ran |-> TRUE, vals |-> vals,
                            before |-> [c \in DOMAIN vals |->
                                          ColumnValue(db, target_record_id, c)],
                            new_vals |-> new_vals,
                            wrote |-> TRUE, deleted |-> delete, order |-> order]
    /\ UNCHANGED <<Inputs, field_spec, record_ids>>

\* DeleteRecordsSql without the test of delete of line 1097
DeleteRecordsSql_always ==
    /\ pc = "adjust"
    /\ method = "sql"
    /\ ~has_field_spec
    /\ LET deleted == delete_records_sql(db, Range(record_ids))
       IN IF DeleteRestricted(deleted, Range(record_ids))
          THEN /\ Raise("ForeignKeyViolation")
               /\ db' = deleted
               /\ log' = log \o <<"delete ir_model_data", "delete ir_attachment">>
          ELSE /\ Return("merged")
               /\ db' = deleted
               /\ log' = log \o <<"delete ir_model_data", "delete ir_attachment",
                                  "delete records">>
    /\ last' = [NoLast EXCEPT !.deleted = delete]
    /\ UNCHANGED <<Inputs, field_spec, record_ids>>

\* lines 1097-1101: without a field_spec the "sql" mode only deletes
DeleteRecordsSql ==
    /\ pc = "adjust"
    /\ method = "sql"
    /\ ~has_field_spec
    /\ LET deleted == delete_records_sql(db, Range(record_ids))
       IN IF ~delete
          THEN /\ Return("merged")
               /\ UNCHANGED <<db, log>>
          ELSE IF DeleteRestricted(deleted, Range(record_ids))
          THEN /\ Raise("ForeignKeyViolation")
               /\ db' = deleted
               /\ log' = log \o <<"delete ir_model_data", "delete ir_attachment">>
          ELSE /\ Return("merged")
               /\ db' = deleted
               /\ log' = log \o <<"delete ir_model_data", "delete ir_attachment",
                                  "delete records">>
    /\ last' = [NoLast EXCEPT !.deleted = delete]
    /\ UNCHANGED <<Inputs, field_spec, record_ids>>

Next ==
    \/ Validate
    \/ ChangeGeneric
    \/ CheckExists
    \/ CheckRecurrence
    \/ ChangeMany2oneRefsOrm
    \/ ChangeMany2manyRefsOrm
    \/ ChangeForeignKeyRefs
    \/ ChangeTranslationsOrm
    \/ ChangeTranslationsSql
    \/ AdjustMergedValuesOrm
    \/ Recompute
    \/ AdjustMergedValuesSql
    \/ DeleteRecordsSql

Spec == Init /\ [][Next]_vars

(***************************************************************************)
(* Direct calls of apply_operations_by_field_type on a numeric column:     *)
(* call.stored are the stored values [survivor, duplicates in record_ids   *)
(* order], handed over as _adjust_merged_values_orm / _sql hand them over. *)
(***************************************************************************)
NumVals == {None, <<-1>>, <<2>>, <<3>>, <<5>>}

NumOps == {NoOp, "sum", "avg", "max", "min", "first_not_null", "first_from_origin"}

InitOps ==
    /\ call \in [stored : UNION {[1..n -> NumVals] : n \in 2..MaxLen},
                 field_type : {"integer", "float"},
                 operation : NumOps,
                 method : Methods]
    /\ ret = <<>>
    /\ pc = "call"
    /\ method = call.method
    /\ delete = FALSE
    /\ args_record_ids = <<>>
    /\ record_ids = <<>>
    /\ target_record_id = 1
    /\ exclude_columns = {}
    /\ has_field_spec = TRUE
    /\ field_spec = One("qty", call.operation)
    /\ field_spec0 = field_spec
    /\ db = BaseDb
    /\ db0 = db
    /\ exit = ""
    /\ err = ""
    /\ log = <<>>
    /\ last = NoLast

\* lines 623-639: field_vals is all_records.mapped(field.name)
CallOrm ==
    /\ pc = "call"
    /\ call.method = "orm"
    /\ LET read == [i \in 1..Len(call.stored) |-> <<ZeroIfNot(call.stored[i])>>]
           env == [origin_value |-> read[2], target_value |-> read[1],
                   model_field |-> "", model_field_known |-> FALSE,
                   list_model_field |-> <<>>]
       IN ret' = apply_operations_by_field_type(env, field_spec, read,
                     call.field_type, "qty", call.operation, "orm")
    /\ pc' = "called"
    /\ UNCHANGED <<method, delete, has_field_spec, field_spec, field_spec0,
                   args_record_ids, record_ids, target_record_id, exclude_columns,
                   exit, err, db, db0, log, last, call>>

\* lines 713-732: field_vals is the column of the fetched rows
CallSql ==
    /\ pc = "call"
    /\ call.method = "sql"
    /\ ret' = apply_operations_by_field_type(NoEnv, field_spec, call.stored,
                  call.field_type, "qty", call.operation, "sql")
    /\ pc' = "called"
    /\ UNCHANGED <<method, delete, has_field_spec, field_spec, field_spec0,
                   args_record_ids, record_ids, target_record_id, exclude_columns,
                   exit, err, db, db0, log, last, call>>

NextOps == CallOrm \/ CallSql

SpecOps == InitOps /\ [][NextOps]_vars

(***************************************************************************)
(* Properties.                                                             *)
(***************************************************************************)
Done == pc = "done"

ReturnedNormally == Done /\ exit # "raised"

\* the duplicates that existed when the call started
FoundIds == ArgIds \cap DOMAIN db0.recs

\* C1: merge_records called with target_record_id contained in record_ids ends
\* with an error and, up to then, has run no statement that changes the store:
\* the store and the field_spec are as they were, in both modes.
C1_RejectedBeforeAnyMutation ==
    target_record_id \in ArgIds =>
        /\ pc \in {"start", "done"}
        /\ db = db0
        /\ log = <<>>
        /\ field_spec = field_spec0
        /\ Done => exit = "raised" /\ err = "Exception"

C1_Witness ==
    /\ Done
    /\ target_record_id \in ArgIds
    /\ exit = "raised"
    /\ \E a \in DOMAIN db.att : db.att[a] \in ArgIds \ {target_record_id}

\* C2: after merge_records returns normally, no row of a table with a foreign key
\* to the merged model (the model's own parent_id, ref.col, both junction tables)
\* still holds an id of record_ids, with delete=True and with delete=False.
C2_NoReferenceToDuplicates ==
    ReturnedNormally =>
        /\ \A i \in DOMAIN db.recs : ~InIds(db.recs[i].parent_id, ArgIds)
        /\ \A r \in db.ref : ~InIds(r.col, ArgIds)
        /\ \A p \in db.tag_rel : p[1] \notin ArgIds
        /\ \A p \in db.m_rel : p[2] \notin ArgIds

\* C3: after merge_records returns normally with delete=True and at least one
\* existing duplicate, no duplicate row is left in the model's table and no
\* ir_model_data or ir_attachment row references a duplicate, whatever the
\* field_spec and in both modes.
C3_DuplicatesDeleted ==
    (ReturnedNormally /\ delete /\ FoundIds # {}) =>
        /\ ArgIds \cap DOMAIN db.recs = {}
        /\ ArgIds \cap db.imd = {}
        /\ \A a \in DOMAIN db.att : db.att[a] \notin ArgIds

\* the survivor's hierarchy pointer is one of the duplicates
SurvivorBelowDuplicate == InIds(db0.recs[target_record_id].parent_id, FoundIds)

\* C4: when the survivor's value in the self-referential column parent_id is one
\* of the duplicate ids, merge_records refuses the merge: no value reconciliation
\* runs on the survivor and no duplicate row is deleted.
C4_RecursionRefused ==
    (Done /\ SurvivorBelowDuplicate) =>
        /\ ~last.ran
        /\ ~last.deleted
        /\ DOMAIN db.recs = DOMAIN db0.recs

\* C5: merging a parent into one of its own children makes merge_records raise
\* RecursionDetected and leaves parent_id of the survivor and of the duplicates
\* as they were.
C5_RecursionRaised ==
    (Done /\ target_record_id \notin ArgIds /\ SurvivorBelowDuplicate) =>
        /\ exit = "raised"
        /\ err = "RecursionDetected"
        /\ \A i \in FoundIds \cup {target_record_id} :
            i \in DOMAIN db.recs /\ db.recs[i].parent_id = db0.recs[i].parent_id

\* whether writing the candidate of field f changes what the survivor stores
CandidateDiffers(f) ==
    IF f = "tag_ids"
    THEN ~(Range(last.vals[f]) \subseteq Range(last.before[f]))
    ELSE last.vals[f] # last.before[f]

\* C8: the value reconciliation writes a field of the survivor only if the
\* candidate differs from the value the survivor stores; in particular it writes
\* nothing when every candidate equals the stored value.
C8_WritesOnlyChangedValues ==
    last.wrote => \A f \in last.new_vals : CandidateDiffers(f)

\* C9: when the survivor and a duplicate are linked to the same related id
\* through a many2many junction, then after the merge the junction has the row
\* (survivor, related id) and no row (duplicate, related id).
C9_Many2manyDeduplicated ==
    (Done /\ exit = "merged") =>
        /\ \A d \in ArgIds, t \in Tags :
            (<<target_record_id, t>> \in db0.tag_rel /\ <<d, t>> \in db0.tag_rel)
            => (<<target_record_id, t>> \in db.tag_rel /\ <<d, t>> \notin db.tag_rel)
        /\ \A d \in ArgIds, m \in {p[1] : p \in db0.m_rel} :
            (<<m, target_record_id>> \in db0.m_rel /\ <<m, d>> \in db0.m_rel)
            => (<<m, target_record_id>> \in db.m_rel /\ <<m, d>> \notin db.m_rel)

ResIdMerged ==
    /\ DictGet(field_spec0, "res_id", NoOp) \in {NoOp, "merge"}
    /\ ~Skipped(field_spec0, ModelFields[3])

Counted(v) == IF v = None THEN 0 ELSE v[1]

RECURSIVE TotalFrom(_, _)
TotalFrom(vs, i) == IF i > Len(vs) THEN 0 ELSE Counted(vs[i]) + TotalFrom(vs, i + 1)

C6_SumAndMax ==
    pc = "called" =>
        /\ call.operation = "sum" =>
              ret.vals = One("qty", <<TotalFrom(call.stored, 1)>>)
        /\ call.operation = "max" =>
              /\ DOMAIN ret.vals = {"qty"}
              /\ \E i \in 1..Len(call.stored) : ret.vals["qty"] = <<Counted(call.stored[i])>>
              /\ \A i \in 1..Len(call.stored) : Counted(call.stored[i]) <= ret.vals["qty"][1]

C6_Witness ==
    /\ pc = "called"
    /\ call.stored = <<<<2>>, <<3>>, <<5>>, None>>
    /\ \/ call.operation = "sum" /\ ret.vals = One("qty", <<10>>)
       \/ call.operation = "max" /\ ret.vals = One("qty", <<5>>)

\* C7: with "first_from_origin" the candidate is the value of the first duplicate
\* of record_ids that has a non-empty value, in both modes.
C7_FirstFromOrigin ==
    (pc = "called" /\ call.operation = "first_from_origin") =>
        LET filled == SelectSeq(Tail(call.stored), TruthyNum)
        IN filled # <<>> => ret.vals = One("qty", filled[1])

\* C11: for every (table, column) pair of exclude_columns, merge_records changes
\* the value of that column in no row of that table, at any step of the merge.
C11_ExcludedColumnsUntouched ==
    /\ <<"rec", "parent_id">> \in exclude_columns =>
          \A i \in DOMAIN db.recs : db.recs[i].parent_id = db0.recs[i].parent_id
    /\ <<"ref", "col">> \in exclude_columns =>
          \A r \in db.ref : \E q \in db0.ref : q.id = r.id /\ q.col = r.col
    /\ <<"tag_rel", "rec_id">> \in exclude_columns => db.tag_rel \subseteq db0.tag_rel
    /\ <<"m_rel", "rec_id">> \in exclude_columns => db.m_rel \subseteq db0.m_rel
    /\ <<"mail_followers", "res_id">> \in exclude_columns =>
          \A f \in DOMAIN db.fol : db.fol[f].res_id = db0.fol[f].res_id
    /\ <<"ir_translation", "res_id">> \in exclude_columns =>
          \A t \in DOMAIN db.trans : db.trans[t].res_id = db0.trans[t].res_id

\* C12: a uniqueness violation reported by the store while merge_records rewrites
\* references never reaches the caller, in "sql" mode and in "orm" mode.
C12_UniqueViolationAbsorbed == ~(Done /\ exit = "raised" /\ err = "UniqueViolation")

(***************************************************************************)
(* _change_foreign_key_refs and the errors of the store.  Each table of    *)
(* call.tables says what its bulk UPDATE raises (bulk) and what the        *)
(* per-row UPDATE of the fallback raises (row); "" is no error, else the   *)
(* error is its psycopg2 class and its pgcode.  ret.outcome lists what was *)
(* done with the tables processed so far, ret.err is the error that left   *)
(* the function.                                                           *)
(***************************************************************************)
NoError == [class |-> "", pgcode |-> ""]
UniqueViolationError == [class |-> "IntegrityError", pgcode |-> "UNIQUE_VIOLATION"]
UndefinedColumnError == [class |-> "ProgrammingError", pgcode |-> "UNDEFINED_COLUMN"]

StoreErrors ==
    {UniqueViolationError, UndefinedColumnError,
     [class |-> "IntegrityError", pgcode |-> "FOREIGN_KEY_VIOLATION"],
     [class |-> "ProgrammingError", pgcode |-> "SYNTAX_ERROR"],
     [class |-> "OperationalError", pgcode |-> "DEADLOCK_DETECTED"]}

\* except (ProgrammingError, IntegrityError)
Caught(error) == error.class \in {"ProgrammingError", "IntegrityError"}

\* the relinker absorbing every error it catches
change_foreign_key_refs_errors_all_absorbed(t, extra_where) ==
    IF t.bulk = NoError THEN [done |-> "updated", err |-> NoError]
    ELSE IF ~Caught(t.bulk) THEN [done |-> "", err |-> t.bulk]
    ELSE IF t.bulk.pgcode = "UNDEFINED_COLUMN" THEN [done |-> "skipped", err |-> NoError]
    ELSE IF t.row = NoError THEN [done |-> "updated by row", err |-> NoError]
    ELSE IF ~Caught(t.row) THEN [done |-> "", err |-> t.row]
    ELSE [done |-> "row left", err |-> NoError]

\* lines 50-127 for one table: what is done with it and the error that
\* propagates
change_foreign_key_refs_errors(t, extra_where) ==
    IF t.bulk = NoError THEN [done |-> "updated", err |-> NoError]
    ELSE IF ~Caught(t.bulk) THEN [done |-> "", err |-> t.bulk]
    ELSE IF t.bulk.pgcode = "UNDEFINED_COLUMN" /\ extra_where
    THEN [done |-> "skipped", err |-> NoError]
    ELSE IF t.bulk.pgcode # "UNIQUE_VIOLATION" THEN [done |-> "", err |-> t.bulk]
    ELSE IF t.row = NoError THEN [done |-> "updated by row", err |-> NoError]
    ELSE IF ~Caught(t.row) THEN [done |-> "", err |-> t.row]
    ELSE IF t.row.pgcode # "UNIQUE_VIOLATION" THEN [done |-> "", err |-> t.row]
    ELSE [done |-> "row left", err |-> NoError]

InitFk ==
    /\ call \in [tables : [1..MaxTables -> [bulk : StoreErrors \cup {NoError},
                                           row : StoreErrors \cup {NoError}]],
                 extra_where : BOOLEAN]
    /\ ret = [outcome |-> <<>>, err |-> NoError]
    /\ pc = "fk_loop"
    /\ method = "sql"
    /\ delete = FALSE
    /\ args_record_ids = <<2>>
    /\ record_ids = <<2>>
    /\ target_record_id = 1
    /\ exclude_columns = {}
    /\ has_field_spec = FALSE
    /\ field_spec = EmptyDict
    /\ field_spec0 = field_spec
    /\ db = BaseDb
    /\ db0 = db
    /\ exit = ""
    /\ err = ""
    /\ log = <<>>
    /\ last = NoLast

\* one pass of the loop of line 46
RelinkTable ==
    /\ pc = "fk_loop"
    /\ Len(ret.outcome) < Len(call.tables)
    /\ LET r == change_foreign_key_refs_errors(call.tables[Len(ret.outcome) + 1],
                                                call.extra_where)
       IN IF r.err # NoError
          THEN /\ ret' = [ret EXCEPT !.err = r.err]
               /\ pc' = "fk_raised"
          ELSE /\ ret' = [ret EXCEPT !.outcome = Append(@, r.done)]
               /\ pc' = "fk_loop"
    /\ UNCHANGED <<method, delete, has_field_spec, field_spec, field_spec0,
                   args_record_ids, record_ids, target_record_id, exclude_columns,
                   exit, err, db, db0, log, last, call>>

\* the loop is over: the function returns
RelinkReturn ==
    /\ pc = "fk_loop"
    /\ Len(ret.outcome) = Len(call.tables)
    /\ pc' = "fk_returned"
    /\ UNCHANGED <<method, delete, has_field_spec, field_spec, field_spec0,
                   args_record_ids, record_ids, target_record_id, exclude_columns,
                   exit, err, db, db0, log, last, call, ret>>

NextFk == RelinkTable \/ RelinkReturn

SpecFk == InitFk /\ [][NextFk]_vars

\* the error of a table that the relinker may absorb, as C13 states it
Absorbable(t, extra_where) ==
    \/ t.bulk = NoError
    \/ t.bulk.pgcode = "UNDEFINED_COLUMN" /\ extra_where
    \/ t.bulk.pgcode = "UNIQUE_VIOLATION" /\ t.row.pgcode \in {"", "UNIQUE_VIOLATION"}

\* the tables before the first one whose error may not be absorbed
Survived == {n \in 0..Len(call.tables) :
                \A j \in 1..n : Absorbable(call.tables[j], call.extra_where)}

\* C13: in the foreign-key relinker an error of the bulk update or of a per-row
\* update is absorbed if and only if it is a uniqueness violation or, for the
\* bulk update with an extra predicate, an undefined-column error, in which case
\* the table is skipped and the next tables are processed; any other error is
\* re-raised and no further table is processed.
C13_OnlyExpectedErrorsAbsorbed ==
    /\ pc = "fk_returned" =>
          /\ Len(call.tables) \in Survived
          /\ Len(ret.outcome) = Len(call.tables)
          /\ \A j \in 1..Len(call.tables) :
                ret.outcome[j] = "skipped" <=>
                    call.tables[j].bulk.pgcode = "UNDEFINED_COLUMN"
    /\ pc = "fk_raised" =>
          LET n == Len(ret.outcome) + 1
              t == call.tables[n]
          IN /\ n - 1 \in Survived
             /\ n \notin Survived
             /\ ret.err = IF t.bulk.pgcode = "UNIQUE_VIOLATION" THEN t.row ELSE t.bulk

C13_Witness ==
    /\ pc = "fk_returned"
    /\ call.extra_where
    /\ call.tables[1].bulk = UndefinedColumnError
    /\ ret.outcome[1] = "skipped"
    /\ call.tables[2].bulk = UniqueViolationError
    /\ call.tables[2].row = UniqueViolationError

\* the rows of mail_followers on the survivor
SurvivorFollowers == FollowersOf(db.fol, target_record_id)

\* C14: once _change_generic has processed mail_followers there is at most one
\* follower row per survivor and partner, also when several duplicates are
\* followed by a partner that does not follow the survivor, and the follower row
\* of a duplicate has been deleted exactly when another row of the survivor has
\* the same partner, and has been moved to the survivor otherwise; in "orm" mode
\* and in "sql" mode.
C14_OneFollowerRowPerPartner ==
    (pc = "exists" /\ <<"mail_followers", "res_id">> \notin exclude_columns) =>
        /\ \A f, g \in SurvivorFollowers :
              db.fol[f].partner = db.fol[g].partner => f = g
        /\ \A f \in DOMAIN db0.fol :
              db0.fol[f].res_id \in ArgIds =>
                  /\ f \notin DOMAIN db.fol <=>
                        \E g \in SurvivorFollowers \ {f} :
                            db.fol[g].partner = db0.fol[f].partner
                  /\ f \in DOMAIN db.fol => db.fol[f].res_id = target_record_id

\* C15: with delete=False merge_records deletes no row of the merged model's own
\* table: every record that existed before the call exists at every step and
\* after it, in both modes and for every field_spec.
C15_NoRowDeletedWithoutDelete == ~delete => DOMAIN db.recs = DOMAIN db0.recs

C15_Witness ==
    /\ Done
    /\ exit = "merged"
    /\ ~delete
    /\ FoundIds # {}
    /\ db # db0
    /\ FoundIds \subseteq DOMAIN db.recs

\* the value of field f of record id when value reconciliation starts: the one
\* of the call's start, a parent that is a duplicate having been relinked
StartValue(id, f) ==
    IF f = "parent_id" /\ db0.recs[id][f] # None /\ db0.recs[id][f][1] \in ArgIds
    THEN <<target_record_id>>
    ELSE db0.recs[id][f]

\* a value of field f that is not empty
NonEmpty(f, v) == IF FieldType(f) = "many2one" THEN v # None ELSE TruthyStr(v)

\* the non-empty values of field f of the survivor, then of the duplicates dups
NonEmptyValues(f, dups) ==
    SelectSeq([i \in 1..(Len(dups) + 1) |->
                   StartValue((<<target_record_id>> \o dups)[i], f)],
              LAMBDA v : NonEmpty(f, v))

\* what C16 says field f of the survivor ends with, the duplicates being dups
DefaultResult(f, dups) ==
    LET own == StartValue(target_record_id, f)
        filled == NonEmptyValues(f, dups)
    IN CASE FieldType(f) \in {"float", "monetary"} ->
              <<SumSeq([i \in 1..(Len(dups) + 1) |->
                          ZeroIfNot(StartValue((<<target_record_id>> \o dups)[i], f))])>>
         [] FieldType(f) \in {"text", "html"} -> <<JoinPipe(filled)>>
         [] FieldType(f) \in {"many2one", "binary"} ->
              IF NonEmpty(f, own) THEN own
              ELSE IF filled # <<>> THEN filled[1] ELSE own
         [] OTHER -> own

\* equality of stored values, NULL being the number 0 and the empty string
SameStored(f, a, b) ==
    CASE FieldType(f) \in {"float", "monetary"} -> ZeroIfNot(a) = ZeroIfNot(b)
      [] FieldType(f) \in {"text", "html"} -> (TruthyStr(a) \/ TruthyStr(b)) => a = b
      [] OTHER -> a = b

DefaultFields ==
    {"name", "count", "active", "date", "state", "qty", "amount", "note", "body",
     "parent_id", "image"}

\* C16: after a merge with an empty field_spec each stored field of the survivor
\* holds the result of the default operation of its type: char, integer,
\* boolean, date and selection keep the survivor's value, float and monetary
\* hold the sum of the values of all records, text and html the non-empty values
\* of the survivor then of the duplicates joined with " | ", many2one and binary
\* the first non-empty value if the survivor's was empty and the survivor's
\* otherwise.
C16_DefaultOperations ==
    (/\ Done /\ exit = "merged"
     /\ has_field_spec /\ field_spec0 = EmptyDict /\ exclude_columns = {}
     /\ target_record_id \in DOMAIN db.recs) =>
        \E dups \in RowOrders(FoundIds) :
            \A f \in DefaultFields :
                SameStored(f, db.recs[target_record_id][f], DefaultResult(f, dups))

\* the structured key-value fields of the store the merge started on: the
\* serialized field props and, from version 16 on, the translatable fields,
\* which are handed to the operation as "jsonb"
StructuredFields == {"props"} \cup (IF db0.version > 15 THEN TranslateFields ELSE {})

\* the dictionary held by the field f of record id at the start
Dict0(id, f) == IF db0.recs[id][f] = None THEN EmptyDict ELSE db0.recs[id][f][1]

\* the dictionary the survivor ends with
DictFinal(f) ==
    IF db.recs[target_record_id][f] = None THEN EmptyDict
    ELSE db.recs[target_record_id][f][1]

\* the dictionary held by the serialized field props of record id at the start
Props0(id) == Dict0(id, "props")

\* the dictionary of props the survivor ends with
PropsFinal == DictFinal("props")

\* a merge that applied the default operation to every field and ended
DefaultMerged ==
    /\ Done /\ exit = "merged"
    /\ has_field_spec /\ field_spec0 = EmptyDict
    /\ target_record_id \in DOMAIN db.recs

\* the order in which value reconciliation read the records
ReadOrder ==
    IF method = "orm" THEN <<target_record_id>> \o args_record_ids ELSE last.order

\* the values of the field f reach the operation as texts, not as dictionaries
HandedAsText(f) == f # "props" /\ method = "orm" /\ db0.translate_read = "text"

\* C17 (as stated): after a merge under the default policy a serialized or jsonb
\* field of the survivor has exactly the keys of the survivor's and of the
\* duplicates' values, and for a key that the survivor and a duplicate hold with
\* different values the value of a duplicate wins.
C17_DuplicateWins ==
    DefaultMerged =>
        \A f \in StructuredFields :
            /\ DOMAIN DictFinal(f) =
                  UNION {DOMAIN Dict0(i, f) : i \in FoundIds \cup {target_record_id}}
            /\ \A k \in DOMAIN Dict0(target_record_id, f) :
                  (\E i \in FoundIds : k \in DOMAIN Dict0(i, f)
                                       /\ Dict0(i, f)[k] # Dict0(target_record_id, f)[k])
                  => DictFinal(f)[k] # Dict0(target_record_id, f)[k]

\* C17 (amended): after a merge under the default policy a serialized or jsonb
\* field whose values reach the operation as dictionaries has exactly the keys
\* of the survivor's and of the duplicates' values, and each key has the value
\* of the first record that holds it, in the order in which the records were
\* read: the survivor, then the duplicates in the order of record_ids in "orm"
\* mode, the order of the rows of the SELECT in "sql" mode.  In "sql" mode the
\* merge only ends if the serialized field is NULL in none of the records read;
\* a NULL jsonb column counts as an empty dictionary.  When "orm" mode gets the
\* values of a translatable field as texts, the merge only ends if every text is
\* empty, and it leaves the field of the survivor as it was.
C17_FirstReadWins ==
    DefaultMerged =>
        \A f \in StructuredFields :
            IF HandedAsText(f)
            THEN /\ \A n \in 1..Len(ReadOrder) :
                       \/ db0.recs[ReadOrder[n]][f] = None
                       \/ Dict0(ReadOrder[n], f)["en"] = ""
                 /\ db.recs[target_record_id][f] = db0.recs[target_record_id][f]
            ELSE /\ (method = "sql" /\ f = "props") =>
                       \A n \in 1..Len(ReadOrder) : db0.recs[ReadOrder[n]][f] # None
                 /\ DOMAIN DictFinal(f) =
                       UNION {DOMAIN Dict0(i, f) : i \in FoundIds \cup {target_record_id}}
                 /\ \A k \in DOMAIN DictFinal(f) :
                       \E n \in 1..Len(ReadOrder) :
                           /\ k \in DOMAIN Dict0(ReadOrder[n], f)
                           /\ DictFinal(f)[k] = Dict0(ReadOrder[n], f)[k]
                           /\ \A m \in 1..(n - 1) : k \notin DOMAIN Dict0(ReadOrder[m], f)

\* a merge in "sql" mode on version 16 that read the survivor first: a duplicate
\* holds another text than the survivor for "en" and a text for "fr" that the
\* survivor lacks, in the jsonb column note with a NULL in the third record
C17_Witness ==
    /\ DefaultMerged
    /\ method = "sql"
    /\ db0.version > 15
    /\ ReadOrder[1] = target_record_id
    /\ \E i \in FoundIds :
          /\ "en" \in DOMAIN Dict0(i, "note") \cap DOMAIN Dict0(target_record_id, "note")
          /\ Dict0(i, "note")["en"] # Dict0(target_record_id, "note")["en"]
          /\ "fr" \in DOMAIN Dict0(i, "note") \ DOMAIN Dict0(target_record_id, "note")
          /\ DictFinal("note") = DictUpdate(Dict0(i, "note"), Dict0(target_record_id, "note"))
    /\ \E i \in FoundIds : db0.recs[i].note = None

\* the same on a serialized field in "orm" mode
SerializedMerged ==
    /\ DefaultMerged
    /\ method = "orm"
    /\ \E i \in FoundIds :
          /\ "a" \in DOMAIN Props0(i) \cap DOMAIN Props0(target_record_id)
          /\ Props0(i)["a"] # Props0(target_record_id)["a"]
          /\ "b" \in DOMAIN Props0(i) \ DOMAIN Props0(target_record_id)
          /\ PropsFinal = DictUpdate(Props0(i), Props0(target_record_id))

\* the same on a translatable field of version 16 that "orm" mode gets as
\* dictionaries
JsonbMergedOrm ==
    /\ DefaultMerged
    /\ method = "orm"
    /\ db0.version > 15
    /\ \E i \in FoundIds :
          /\ "fr" \in DOMAIN Dict0(i, "note") \ DOMAIN Dict0(target_record_id, "note")
          /\ "en" \in DOMAIN Dict0(target_record_id, "note")
          /\ Dict0(i, "note")["en"] # Dict0(target_record_id, "note")["en"]
          /\ DictFinal("note") = DictUpdate(Dict0(i, "note"), Dict0(target_record_id, "note"))

\* field_spec holds 'openupgrade_other_fields': 'preserve'
PreserveOthers ==
    has_field_spec /\ DictGet(field_spec0, "openupgrade_other_fields", "") = "preserve"

\* the step of value reconciliation leaves the fields of the survivor that are
\* no key of field_spec as they were, and moves no row of the one2many field to
\* the survivor
UnlistedKept ==
    (/\ pc = "adjust" /\ PreserveOthers
     /\ target_record_id \in DOMAIN db.recs /\ target_record_id \in DOMAIN db'.recs) =>
        /\ \A c \in DOMAIN DefaultRow \ DOMAIN field_spec0 :
              db'.recs[target_record_id][c] = db.recs[target_record_id][c]
        /\ "tag_ids" \notin DOMAIN field_spec0 =>
              TagsOf(db', target_record_id) = TagsOf(db, target_record_id)
        /\ "ref_ids" \notin DOMAIN field_spec0 =>
              \A r \in db'.ref : r.col = <<target_record_id>> => r \in db.ref

\* C18 (as stated): when field_spec holds 'openupgrade_other_fields': 'preserve',
\* value reconciliation changes no field of the survivor that is not a key of
\* field_spec and reparents no one2many row: every unlisted field keeps the value
\* the survivor had.
C18_UnlistedFieldsKept == [][UnlistedKept]_vars

\* the fields that are computed, related or not stored
DerivedFields ==
    {ModelFields[i].name :
        i \in {j \in 1..Len(ModelFields) :
                 ~ModelFields[j].store \/ ModelFields[j].compute \/ ModelFields[j].related}}

\* C19: value reconciliation never writes a computed, related or non-stored
\* field of the survivor, in "orm" mode and in "sql" mode: the values it writes
\* are values of stored, non-computed fields only.
C19_DerivedFieldsNotWritten == last.wrote => last.new_vals \cap DerivedFields = {}

\* the translation merger has just run and was not disabled
TranslationsMerged ==
    /\ pc = "adjust"
    /\ db.version <= 15
    /\ <<"ir_translation", "res_id">> \notin exclude_columns

\* the rows of ir_translation of a store that are on record id for the field
\* name and the language lang
TranslationRows(trans, id, name, lang) ==
    {t \in DOMAIN trans : trans[t] = [res_id |-> id, name |-> name, lang |-> lang]}

PairsSet ==
    SelectSeq(<<target_record_id>> \o args_record_ids,
              LAMBDA i : /\ i \in DOMAIN db0.recs
                         /\ TruthyNum(db0.recs[i].res_id)
                         /\ TruthyStr(db0.recs[i].res_model))

\* C21: after an "orm" merge with the default 'merge' operation on the
\* many2one_reference field res_id, a survivor whose value was not positive holds
\* the first (id, model) pair among the records in which both are set, and a
\* survivor whose value was positive holds the value it had.
C21_Many2oneReferenceMerge ==
    (/\ Done /\ exit = "merged" /\ method = "orm"
     /\ field_spec0 = EmptyDict
     /\ target_record_id \in DOMAIN db.recs) =>
        LET own == db0.recs[target_record_id]
            now == db.recs[target_record_id]
        IN IF ~TruthyNum(own.res_id) /\ PairsSet # <<>>
           THEN /\ now.res_id = db0.recs[PairsSet[1]].res_id
                /\ now.res_model = db0.recs[PairsSet[1]].res_model
           ELSE now.res_id = own.res_id

(***************************************************************************)
(* openupgrade.migrate: the wrapper the decorator puts around a migration  *)
(* function.  call holds the decorator's arguments, the version argument   *)
(* of the wrapper, version_info[0] and what the environment does (whether  *)
(* the frame inspection fails, whether func raises); ret holds the         *)
(* arguments func was called with, the exception that leaves the wrapper,  *)
(* the state of the savepoint and the messages logged.                     *)
(***************************************************************************)
\* the variables of a merge_records call, which the other functions leave alone
MergeVars == <<method, delete, has_field_spec, field_spec, field_spec0, args_record_ids,
               record_ids, target_record_id, exclude_columns, exit, err, db, db0, log,
               last>>

\* no merge_records call is running
NoMerge ==
    /\ method = "sql"
    /\ delete = FALSE
    /\ args_record_ids = <<2>>
    /\ record_ids = <<2>>
    /\ target_record_id = 1
    /\ exclude_columns = {}
    /\ has_field_spec = FALSE
    /\ field_spec = EmptyDict
    /\ field_spec0 = field_spec
    /\ db = BaseDb
    /\ db0 = db
    /\ exit = ""
    /\ err = ""
    /\ log = <<>>
    /\ last = NoLast

\* use_env2 decided by the version alone
use_env2_by_version(use_env, version_info) == version_info >= 10

\* use_env is None and version_info[0] >= 10 or use_env
use_env2(use_env, version_info) ==
    IF use_env = None THEN version_info >= 10 ELSE use_env[1]

InitMigrate ==
    /\ call \in [no_version : BOOLEAN,
                 use_env : {None, <<TRUE>>, <<FALSE>>},
                 version : {None, <<"">>, <<"1.0">>},
                 version_info : {7, 9, 10},
                 inspect_fails : BOOLEAN,
                 func_raises : BOOLEAN]
    /\ ret = [called |-> <<>>, raised |-> "", savepoint |-> "", logged |-> <<>>]
    /\ pc = "migrate"
    /\ NoMerge

\* lines 1844-1849: the savepoint is entered, then the Environment manager
MigrateEnter ==
    /\ pc = "migrate"
    /\ IF use_env2(call.use_env, call.version_info) /\ call.version_info < 8
       THEN /\ ret' = [ret EXCEPT !.raised = "AssertionError",
                                  !.savepoint = "rolled back"]
            /\ pc' = "migrate_done"
       ELSE /\ ret' = [ret EXCEPT !.savepoint = "open"]
            /\ pc' = "migrate_inspect"
    /\ UNCHANGED <<MergeVars, call>>

\* lines 1850-1862: the frame above is inspected; a failure is only logged
MigrateInspect ==
    /\ pc = "migrate_inspect"
    /\ ret' = IF call.inspect_fails
              THEN [ret EXCEPT !.logged = Append(@, "error: failed to inspect")]
              ELSE ret
    /\ pc' = "migrate_version"
    /\ UNCHANGED <<MergeVars, call>>

\* lines 1863-1870: if not version and not no_version: return
MigrateVersion ==
    /\ pc = "migrate_version"
    /\ IF ~TruthyStr(call.version) /\ ~call.no_version
       THEN /\ ret' = [ret EXCEPT !.savepoint = "released"]
            /\ pc' = "migrate_done"
       ELSE /\ ret' = [ret EXCEPT !.logged = Append(@, "info: script called")]
            /\ pc' = "migrate_func"
    /\ UNCHANGED <<MergeVars, call>>

\* lines 1871-1884: func is called; its exception is logged and raised again
MigrateFunc ==
    /\ pc = "migrate_func"
    /\ LET arg == IF use_env2(call.use_env, call.version_info) THEN "env" ELSE "cr"
       IN ret' = IF call.func_raises
                 THEN [ret EXCEPT !.called = Append(@, arg),
                                  !.raised = "FuncError",
                                  !.savepoint = "rolled back",
                                  !.logged = @ \o <<"error: error in migration script",
                                                    "error: boom (traceback)">>]
                 ELSE [ret EXCEPT !.called = Append(@, arg),
                                  !.savepoint = "released"]
    /\ pc' = "migrate_done"
    /\ UNCHANGED <<MergeVars, call>>

NextMigrate == MigrateEnter \/ MigrateInspect \/ MigrateVersion \/ MigrateFunc

SpecMigrate == InitMigrate /\ [][NextMigrate]_vars

\* what C22 says of a call that has ended, wherever the claimed behaviour applies
MigrateAsStated ==
    /\ Len(ret.called) <= 1
    /\ pc = "migrate_done" =>
          IF ~TruthyStr(call.version) /\ ~call.no_version
          THEN ret.called = <<>>
          ELSE /\ Len(ret.called) = 1
               /\ call.use_env = <<FALSE>> => ret.called[1] = "cr"
               /\ call.use_env = <<TRUE>> => ret.called[1] = "env"
               /\ ret.raised = (IF call.func_raises THEN "FuncError" ELSE "")

\* C22 (as stated): a function decorated with openupgrade.migrate is not called
\* when the version argument is empty and no_version is False; otherwise it is
\* called exactly once, with the cursor when use_env is False and with an
\* Environment when use_env is True, and an exception it raises leaves the
\* wrapper.
C22_MigrateCallsOnce == MigrateAsStated

\* C22 (amended): the same, except that a wrapper that is to pass an Environment
\* on a version below 8 raises AssertionError and never calls the function.
C22_MigrateCallsOnceFromV8 ==
    IF use_env2(call.use_env, call.version_info) /\ call.version_info < 8
    THEN /\ ret.called = <<>>
         /\ pc = "migrate_done" => ret.raised = "AssertionError"
    ELSE MigrateAsStated

C22_Witness ==
    /\ pc = "migrate_done"
    /\ call.use_env = <<TRUE>>
    /\ call.version = None
    /\ call.no_version
    /\ call.func_raises
    /\ ret.called = <<"env">>
    /\ ret.raised = "FuncError"

(***************************************************************************)
(* openupgrade.delete_record_translations.  Model names and the names of   *)
(* translation rows are sequences of characters, so that LIKE is the       *)
(* pattern match PostgreSQL computes.  call holds the arguments and the    *)
(* rows of ir_model_data and ir_translation before the call, ret the rows  *)
(* of ir_translation after it and the exception raised.                    *)
(***************************************************************************)
\* str LIKE pattern: _ matches one character, % any sequence of characters
RECURSIVE Like(_, _)
Like(str, pattern) ==
    IF pattern = <<>> THEN str = <<>>
    ELSE IF Head(pattern) = "%"
    THEN Like(str, Tail(pattern)) \/ (str # <<>> /\ Like(Tail(str), pattern))
    ELSE /\ str # <<>>
         /\ Head(pattern) = "_" \/ Head(pattern) = Head(str)
         /\ Like(Tail(str), Tail(pattern))

ModelUnderscore == <<"a", "_", "b">>
ModelDot == <<"a", ".", "b">>
ModelPlain == <<"c">>

\* the name of the translation rows of the field n of a model
TranslationName(model) == model \o <<",", "n">>

\* ir_model_data: the XML ids of three records
ImdRows ==
    {[module |-> "base", name |-> "x1", model |-> ModelUnderscore, res_id |-> 5],
     [module |-> "base", name |-> "x2", model |-> ModelPlain, res_id |-> 5],
     [module |-> "sale", name |-> "x1", model |-> ModelDot, res_id |-> 5]}

\* ir_translation: the rows the stores are made of
TranslationRow(t) ==
    CASE t = 70 -> [module |-> "base", name |-> TranslationName(ModelUnderscore), res_id |-> 5]
      [] t = 71 -> [module |-> "base", name |-> TranslationName(ModelDot), res_id |-> 5]
      [] t = 72 -> [module |-> "base", name |-> TranslationName(ModelUnderscore), res_id |-> 6]
      [] t = 73 -> [module |-> "sale", name |-> TranslationName(ModelUnderscore), res_id |-> 5]
      [] t = 74 -> [module |-> "base", name |-> TranslationName(ModelPlain), res_id |-> 5]

\* the xml_ids arguments tried: lists, tuples and a string
XmlIdsChoices ==
    {[type |-> "list", items |-> <<"x1">>], [type |-> "list", items |-> <<"x1", "x2">>],
     [type |-> "tuple", items |-> <<"x2">>], [type |-> "list", items |-> <<"zz">>],
     [type |-> "list", items |-> <<>>], [type |-> "str", items |-> <<"x1">>]}

InitTranslations ==
    /\ call \in [module : {"base", "sale"},
                 xml_ids : XmlIdsChoices,
                 imd : {ImdRows},
                 trans : {[t \in rows |-> TranslationRow(t)] :
                             rows \in SUBSET {70, 71, 72, 73, 74}}]
    /\ ret = [trans |-> call.trans, raised |-> ""]
    /\ pc = "delete_record_translations"
    /\ NoMerge

\* lines 2173-2177: SELECT model, res_id FROM ir_model_data WHERE module = %s
\* AND name in %s
ResolvedXmlIds(module, xml_ids, imd) ==
    {<<r.model, r.res_id>> : r \in {q \in imd : q.module = module
                                                /\ q.name \in Range(xml_ids)}}

\* lines 2178-2183: one DELETE per row fetched
delete_translations_of(trans, module, rows) ==
    [t \in {u \in DOMAIN trans :
              ~\E row \in rows : /\ trans[u].module = module
                                 /\ Like(trans[u].name, row[1] \o <<",", "%">>)
                                 /\ trans[u].res_id = row[2]} |-> trans[t]]

\* the whole function.  An empty list gives "name in ()", which the store
\* refuses
DeleteRecordTranslations ==
    /\ pc = "delete_record_translations"
    /\ pc' = "delete_record_translations_done"
    /\ ret' = IF call.xml_ids.type \notin {"list", "tuple"}
              THEN [ret EXCEPT !.raised = "UserError"]
              ELSE IF call.xml_ids.items = <<>>
              THEN [ret EXCEPT !.raised = "ProgrammingError"]
              ELSE [ret EXCEPT !.trans =
                        delete_translations_of(@, call.module,
                            ResolvedXmlIds(call.module, call.xml_ids.items, call.imd))]
    /\ UNCHANGED <<MergeVars, call>>

NextTranslations == DeleteRecordTranslations

SpecTranslations == InitTranslations /\ [][NextTranslations]_vars

\* a translation row of the record res_id of model in module
TranslationOf(row, module, model, res_id) ==
    /\ row.module = module
    /\ row.res_id = res_id
    /\ Len(row.name) > Len(model) + 1
    /\ SubSeq(row.name, 1, Len(model) + 1) = model \o <<",">>

\* C23: after delete_record_translations(cr, module, xml_ids), for every listed
\* XML id that resolves to (model, res_id) in the module no translation row of
\* that module, that res_id and a name of that model remains, and the
\* translation rows of other records are untouched; an xml_ids argument that is
\* neither a list nor a tuple is rejected with an error, nothing being deleted.
C23_RecordTranslationsDeleted ==
    pc = "delete_record_translations_done" =>
        LET resolved == ResolvedXmlIds(call.module, call.xml_ids.items, call.imd)
        IN /\ call.xml_ids.type \notin {"list", "tuple"} =>
                 ret.raised = "UserError" /\ ret.trans = call.trans
           /\ ret.raised = "" =>
                 /\ \A t \in DOMAIN ret.trans : \A row \in resolved :
                       ~TranslationOf(ret.trans[t], call.module, row[1], row[2])
                 /\ \A t \in DOMAIN call.trans :
                       (\A row \in resolved :
                           ~TranslationOf(call.trans[t], call.module, row[1], row[2]))
                       => t \in DOMAIN ret.trans /\ ret.trans[t] = call.trans[t]

\* the store all the relinking steps of merge_records make of db0: the
\* polymorphic adapter, the relinkers of the mode and the translation merger
Relinked ==
    LET generic == change_generic(db0, args_record_ids, target_record_id,
                                  exclude_columns, method).db
    IN IF method = "orm"
       THEN {change_translations_orm(
                change_many2many_refs_orm(
                    change_many2one_refs_orm(generic, ArgIds, target_record_id,
                                             exclude_columns),
                    ArgIds, target_record_id, exclude_columns),
                ArgIds, target_record_id, exclude_columns)}
       ELSE {change_translations_sql(d, ArgIds, target_record_id, exclude_columns) :
                d \in change_foreign_key_refs(generic, ArgIds, target_record_id,
                                              exclude_columns)}

\* C24: the recursion check of merge_records runs after all the relinking and
\* before value reconciliation and deletion: when the check runs the store is
\* the one the relinking steps produce, so a refused merge leaves exactly that
\* store.
C24_CheckAfterRelinking ==
    /\ pc = "recurrence" => db \in Relinked /\ ~last.ran /\ ~last.deleted
    /\ (Done /\ exit = "recursion") => db \in Relinked /\ ~last.ran /\ ~last.deleted

\* the places of the log where the statement st was issued
Issued(st) == {i \in 1..Len(log) : log[i] = st}

\* C25: in a run of merge_records with delete=True the reconciled values are
\* written to the survivor before the duplicate rows are deleted, in "orm" mode
\* and in "sql" mode.
C25_WriteBeforeDelete ==
    delete => \A w \in Issued("write target") :
                 \A d \in Issued("delete records") \cup Issued("unlink records") : w < d

\* C26: in "sql" mode the deletion is three statements in this order: the
\* ir_model_data entries of the duplicates, the ir_attachment entries on the
\* duplicates, the rows of the duplicates; no row of a duplicate is deleted
\* while an ir_model_data or ir_attachment entry for it exists.
C26_DeletionOrderSql ==
    method = "sql" =>
        /\ \A d \in Issued("delete records") :
              d > 2 /\ log[d - 1] = "delete ir_attachment"
                    /\ log[d - 2] = "delete ir_model_data"
        /\ \A a \in Issued("delete ir_attachment") :
              a > 1 /\ log[a - 1] = "delete ir_model_data"
        /\ \A i \in FoundIds \ DOMAIN db.recs :
              /\ i \notin db.imd
              /\ \A a \in DOMAIN db.att : db.att[a] # i

C26_Witness ==
    /\ Done /\ exit = "merged"
    /\ method = "sql"
    /\ Issued("delete records") # {}
    /\ \E i \in FoundIds : i \in db0.imd /\ i \notin DOMAIN db.recs
    /\ <<"ir_attachment", "res_id">> \notin exclude_columns

\* the foreign-key relinker has just run
ForeignKeysRelinked == pc = "translations" /\ method = "sql"

\* the other-side ids linked to record id in the junction table tag_rel
LinksOf(d, id) == {p[2] : p \in {q \in d.tag_rel : q[1] = id}}

\* C27: after the foreign-key relinker has processed a junction table, the links
\* of the survivor are the union of the links the survivor and the duplicates
\* had: a link (duplicate, X) is deleted only if the survivor is linked to X,
\* and is rewritten to (survivor, X) otherwise, also when one duplicate has a
\* colliding and a non-colliding link.
C27_JunctionLinksUnion ==
    (ForeignKeysRelinked /\ <<"tag_rel", "rec_id">> \notin exclude_columns) =>
        LinksOf(db, target_record_id)
            = UNION {LinksOf(db0, i) : i \in ArgIds \cup {target_record_id}}

(***************************************************************************)
(* _change_foreign_key_refs statement by statement, with the savepoints of *)
(* the store.  call.tables are two referencing tables (rows [id, col, k],  *)
(* has_id, unique); the duplicates are records 2 and 3, the survivor is 1. *)
(* ret holds the tables as the transaction sees them, the stack of         *)
(* savepoints (each with the tables it would restore), whether the         *)
(* transaction is aborted by a failed statement, the table being           *)
(* processed, the next statement, the rows the fallback still has to       *)
(* update and the error that left the function.                            *)
(***************************************************************************)
FkIds == {2, 3}
FkTarget == 1

\* a table with an id column and one without
FkTablesWithId ==
    {[rows |-> r, has_id |-> TRUE, unique |-> u] :
        r \in SUBSET {[id |-> 30, col |-> <<1>>, k |-> "a"], [id |-> 31, col |-> <<2>>, k |-> "a"],
                      [id |-> 32, col |-> <<2>>, k |-> "b"], [id |-> 33, col |-> <<3>>, k |-> "b"]},
        u \in BOOLEAN}

FkJunctionTables ==
    {[rows |-> r, has_id |-> FALSE, unique |-> TRUE] :
        r \in SUBSET {[id |-> 0, col |-> <<1>>, k |-> "a"], [id |-> 0, col |-> <<2>>, k |-> "a"],
                      [id |-> 0, col |-> <<2>>, k |-> "b"], [id |-> 0, col |-> <<3>>, k |-> "b"]}}

\* SAVEPOINT name
savepoint(saved, name, tables) == Append(saved, [name |-> name, tables |-> tables])

\* the place in the stack of the latest savepoint called name
LatestSavepoint(saved, name) ==
    CHOOSE i \in 1..Len(saved) :
        saved[i].name = name /\ \A j \in (i + 1)..Len(saved) : saved[j].name # name

\* ROLLBACK TO SAVEPOINT name, restoring the state of the oldest savepoint
rollback_to_first_savepoint(saved, name) ==
    [tables |-> saved[1].tables, saved |-> SubSeq(saved, 1, LatestSavepoint(saved, name))]

\* ROLLBACK TO SAVEPOINT name: the tables are as they were at the savepoint,
\* which stays; the savepoints made after it are gone
rollback_to_savepoint(saved, name) ==
    [tables |-> saved[LatestSavepoint(saved, name)].tables,
     saved |-> SubSeq(saved, 1, LatestSavepoint(saved, name))]

\* RELEASE SAVEPOINT name: the savepoint and those made after it are gone
release_savepoint(saved, name) == SubSeq(saved, 1, LatestSavepoint(saved, name) - 1)

InitSavepoints ==
    /\ call \in [tables : {<<a, b>> : a \in FkTablesWithId, b \in FkJunctionTables}]
    /\ ret = [tables |-> <<call.tables[1].rows, call.tables[2].rows>>,
              saved |-> <<>>, aborted |-> FALSE, t |-> 1, next |-> "SAVEPOINT sp1",
              todo |-> <<>>, err |-> ""]
    /\ pc = "fk_statements"
    /\ NoMerge

\* the statement next is about to run on an open transaction (the store
\* refuses every statement but a ROLLBACK on an aborted one)
Running(next) == pc = "fk_statements" /\ ret.next = next /\ ~ret.aborted

\* what follows the last statement of a table: the next table, or the return
AfterTable(r) ==
    IF r.t < Len(call.tables)
    THEN /\ ret' = [r EXCEPT !.t = @ + 1, !.next = "SAVEPOINT sp1", !.todo = <<>>]
         /\ pc' = "fk_statements"
    ELSE /\ ret' = [r EXCEPT !.t = @ + 1, !.next = "", !.todo = <<>>]
         /\ pc' = "fk_statements_done"

\* what follows a row of the fallback: the next row, the DELETE of a table
\* without id, or the end of the table
AfterRow(r) ==
    IF Tail(r.todo) # <<>>
    THEN /\ ret' = [r EXCEPT !.todo = Tail(@), !.next = "SAVEPOINT sp2"]
         /\ pc' = "fk_statements"
    ELSE IF ~call.tables[r.t].has_id
    THEN /\ ret' = [r EXCEPT !.todo = <<>>, !.next = "DELETE"]
         /\ pc' = "fk_statements"
    ELSE AfterTable(r)

\* line 50
StmtSavepoint1 ==
    /\ Running("SAVEPOINT sp1")
    /\ ret' = [ret EXCEPT !.saved = savepoint(@, "sp1", ret.tables), !.next = "UPDATE"]
    /\ UNCHANGED <<MergeVars, call, pc>>

\* lines 51-70: one big swoop
StmtBulkUpdate ==
    /\ Running("UPDATE")
    /\ LET rows == ret.tables[ret.t]
           moved == {r \in rows : InIds(r.col, FkIds)}
       IN IF call.tables[ret.t].unique /\ UniqueViolation(rows, moved, FkTarget)
          THEN ret' = [ret EXCEPT !.aborted = TRUE, !.next = "ROLLBACK TO SAVEPOINT sp1"]
          ELSE ret' = [ret EXCEPT !.tables[ret.t] = SetCol(rows, moved, FkTarget),
                                  !.next = "RELEASE SAVEPOINT sp1"]
    /\ UNCHANGED <<MergeVars, call, pc>>

\* line 72
StmtRollbackSp1 ==
    /\ pc = "fk_statements"
    /\ ret.next = "ROLLBACK TO SAVEPOINT sp1"
    /\ LET r == rollback_to_savepoint(ret.saved, "sp1")
       IN ret' = [ret EXCEPT !.tables = r.tables, !.saved = r.saved,
                             !.aborted = FALSE, !.next = "SELECT"]
    /\ UNCHANGED <<MergeVars, call, pc>>

\* lines 79-91: the values of target_column on the rows of the duplicates
StmtSelect ==
    /\ Running("SELECT")
    /\ LET rows == {r \in ret.tables[ret.t] : InIds(r.col, FkIds)}
       IN \E todo \in ListOfSet(IF call.tables[ret.t].has_id
                                THEN {r.id : r \in rows} ELSE {r.col[1] : r \in rows}) :
            ret' = [ret EXCEPT !.todo = todo, !.next = "SAVEPOINT sp2"]
    /\ UNCHANGED <<MergeVars, call, pc>>

\* line 92
StmtSavepoint2 ==
    /\ Running("SAVEPOINT sp2")
    /\ ret' = [ret EXCEPT !.saved = savepoint(@, "sp2", ret.tables), !.next = "UPDATE row"]
    /\ UNCHANGED <<MergeVars, call, pc>>

\* lines 93-106: UPDATE ... WHERE target_column = row
StmtRowUpdate ==
    /\ Running("UPDATE row")
    /\ LET rows == ret.tables[ret.t]
           moved == IF call.tables[ret.t].has_id
                    THEN {r \in rows : r.id = Head(ret.todo)}
                    ELSE {r \in rows : r.col = <<Head(ret.todo)>>}
       IN IF UniqueViolation(rows, moved, FkTarget)
          THEN ret' = [ret EXCEPT !.aborted = TRUE, !.next = "ROLLBACK TO SAVEPOINT sp2"]
          ELSE ret' = [ret EXCEPT !.tables[ret.t] = SetCol(rows, moved, FkTarget),
                                  !.next = "RELEASE SAVEPOINT sp2"]
    /\ UNCHANGED <<MergeVars, call, pc>>

\* lines 107-110
StmtRollbackSp2 ==
    /\ pc = "fk_statements"
    /\ ret.next = "ROLLBACK TO SAVEPOINT sp2"
    /\ LET r == rollback_to_savepoint(ret.saved, "sp2")
       IN AfterRow([ret EXCEPT !.tables = r.tables, !.saved = r.saved, !.aborted = FALSE])
    /\ UNCHANGED <<MergeVars, call>>

\* lines 111-112
StmtReleaseSp2 ==
    /\ Running("RELEASE SAVEPOINT sp2")
    /\ AfterRow([ret EXCEPT !.saved = release_savepoint(@, "sp2")])
    /\ UNCHANGED <<MergeVars, call>>

\* lines 113-125: delete remaining values that could not be merged
StmtDelete ==
    /\ Running("DELETE")
    /\ AfterTable([ret EXCEPT !.tables[ret.t] = {r \in @ : ~InIds(r.col, FkIds)}])
    /\ UNCHANGED <<MergeVars, call>>

\* lines 126-127
StmtReleaseSp1 ==
    /\ Running("RELEASE SAVEPOINT sp1")
    /\ AfterTable([ret EXCEPT !.saved = release_savepoint(@, "sp1")])
    /\ UNCHANGED <<MergeVars, call>>

NextSavepoints ==
    \/ StmtSavepoint1
    \/ StmtBulkUpdate
    \/ StmtRollbackSp1
    \/ StmtSelect
    \/ StmtSavepoint2
    \/ StmtRowUpdate
    \/ StmtRollbackSp2
    \/ StmtReleaseSp2
    \/ StmtDelete
    \/ StmtReleaseSp1

SpecSavepoints == InitSavepoints /\ [][NextSavepoints]_vars

Rollbacks == {"ROLLBACK TO SAVEPOINT sp1", "ROLLBACK TO SAVEPOINT sp2"}

\* C28: a uniqueness violation in the bulk update of a table or in one
\* update of the fallback loop rolls back only the savepoint made just
\* before it: the rollback leaves every table as the failed statement found
\* it (the relinking of the tables processed earlier and of the rows
\* already updated in the loop is retained) and reopens the transaction,
\* and only a rollback is ever sent to an aborted transaction.
C28_SavepointFrame ==
    [][/\ (pc = "fk_statements" /\ ret.next \in Rollbacks)
            => ret'.tables = ret.tables /\ ~ret'.aborted
       /\ (pc' = "fk_statements" /\ ret'.aborted) => ret'.next \in Rollbacks]_vars

\* the second table's bulk update failed, the fallback has moved the links
\* of record 2 and the update for record 3 has just failed, after the first
\* table was relinked
C28_Witness ==
    /\ pc = "fk_statements"
    /\ ret.t = 2
    /\ ret.next = "ROLLBACK TO SAVEPOINT sp2"
    /\ ret.aborted
    /\ ret.todo = <<3>>
    /\ [id |-> 0, col |-> <<1>>, k |-> "b"] \in ret.tables[2] \ call.tables[2].rows
    /\ ret.tables[1] # call.tables[1].rows

\* the rows of the survivor and of the duplicates that exist, survivor first
\* and the duplicates in the order of record_ids
SurvivorFirst ==
    <<target_record_id>> \o SelectSeq(args_record_ids, LAMBDA id : id \in DOMAIN db.recs)

\* C29: in 'sql' mode the values reconciled for each column are those
\* obtained from the rows read survivor first and then the duplicates in
\* record_ids order, whatever the order in which the store returned them.
C29_ValuesIndependentOfRowOrder ==
    [][(/\ pc = "adjust"
        /\ method = "sql"
        /\ has_field_spec
        /\ pc' = "done"
        /\ exit' = "merged")
       => last'.vals = SqlColumnLoop(db, SurvivorFirst, field_spec, 1, EmptyDict).vals]_vars

\* record_ids names records that exist together with records that do not
MixedIds ==
    /\ \E id \in ArgIds : id \in DOMAIN db0.recs
    /\ \E id \in ArgIds : id \notin DOMAIN db0.recs

\* C30: the ids of record_ids that do not exist are ignored by every step
\* after the existence check: a merge given existing and missing ids does
\* not fail on a missing record.
C30_MissingIdsIgnored == (Done /\ MixedIds) => err # "MissingError"

====
